---------------------------- MODULE Spec2Model ----------------------------
(***************************************************************************)
(* Enhancement Request Tracker (src/server-supabase.js, lines 1-1310):     *)
(* the authentication gate in front of the routes, the create and          *)
(* get-by-id handlers, the CSV import row loop, and the "enhancements"     *)
(* table of src/database-update-simple.sql that they write to.             *)
(*                                                                         *)
(* JavaScript values are tagged records: Str(s) is a string whose text is  *)
(* the sequence s of symbols, Num(n) a number, Null and Undefined the two  *)
(* absent values.  A symbol is either one punctuation character (" ", ",", *)
(* "-", a double quote) or a whole word such as "Suppliers" or "2024";     *)
(* trim, split, join and the regular expression work on these sequences.   *)
(* Numbers are held in tenths (3.5 is 35) in field n, NaN is the number    *)
(* NaN.                                                                    *)
(***************************************************************************)
EXTENDS Integers, Sequences, FiniteSets, TLC

VARIABLES
    enhancements,      \* the rows of table "enhancements"
    nextId,            \* the next value of the SERIAL sequence of column id
    whoBenefitsCheck,  \* TRUE while constraint check_who_benefits is in place
                       \* (database-update-simple.sql adds it,
                       \* scripts/migrate-to-supabase.js drops it)
    now,               \* Date.now()
    gate,              \* the last request through the middleware chain and its outcome
    createRes,         \* the last response of POST /api/enhancements
    getRes,            \* the last response of GET /api/enhancements[/:id]
    importPc,          \* position of the import-csv handler: "idle", "loop", "done"
    results,           \* import-csv: the parsed rows
    i,                 \* import-csv: the loop index (0-based, as in the code)
    successful,        \* import-csv: counter
    failed,            \* import-csv: counter
    errors,            \* import-csv: the error list
    rowLog,            \* import-csv: what happened to each processed row (history)
    importRes,         \* import-csv: the response
    slackRes,          \* the last request to POST /api/slack/new-request and its response
    putRes,            \* the last request to PUT /api/enhancements/:id and its response
    hits,              \* the counters of the rate limiters: limiter -> address -> hits
    attempts,          \* requests to the MFA routes per address in the current
                       \* 15-minute window (history)
    lim,               \* the request that met the rate limiters last in the running
                       \* window: its address, its route and what the address had
                       \* used up before it
    admitted,          \* limiter -> address -> the requests the limiter let pass in
                       \* the current window of the address (history)
    mfaRes,            \* the last run of enforceMfaMiddleware: what the provider
                       \* gave and what the middleware did
    creating,          \* two requests to POST /api/enhancements in flight: the
                       \* position of each, the clock it read, its row, its answer
    enrolled,          \* the factors the provider holds for the principal
    disableRes,        \* the last response of DELETE /api/mfa/disable
    statusRes,         \* the last response of GET /api/mfa/status
    refusals           \* limiter -> address -> "refusing" once the limiter refused
                       \* the address in its current window, "reopened" from the
                       \* end of that window to the next request (history)

vars == <<enhancements, nextId, whoBenefitsCheck, now, gate, createRes, getRes,
          importPc, results, i, successful, failed, errors, rowLog, importRes,
          slackRes, putRes, hits, attempts, lim, admitted, refusals, mfaRes,
          creating, enrolled, disableRes, statusRes>>

laterVars == <<slackRes, putRes, hits, attempts, lim, admitted, refusals, mfaRes,
               creating, enrolled, disableRes, statusRes>>
limitVars == <<hits, attempts, lim, admitted, refusals>>
lastVars == <<creating, enrolled, disableRes, statusRes>>
otherVars == <<mfaRes, creating, enrolled, disableRes, statusRes>>

storeVars == <<enhancements, nextId>>
importVars == <<importPc, results, i, successful, failed, errors, rowLog, importRes>>

-----------------------------------------------------------------------------
(* Bounds of the model *)

MaxStrLen == 3     \* longest who-benefits text that is enumerated, in symbols
MaxRows == 3       \* most rows of an uploaded CSV file
\* the requests beyond its limit that are followed per window of a limiter
MaxOver == 1
\* the requests of the second address that are followed per window of a limiter
MaxOtherHits == 1
\* most factors of one principal at the provider
MaxFactors == 2
MaxClock == 1      \* Date.now() ranges over 0..MaxClock

-----------------------------------------------------------------------------
(* JavaScript values *)

Str(s) == [t |-> "string", v |-> s, n |-> 0]
Num(x) == [t |-> "number", v |-> <<>>, n |-> x]
Null == [t |-> "null", v |-> <<>>, n |-> 0]
Undefined == [t |-> "undefined", v |-> <<>>, n |-> 0]
Array == [t |-> "object", v |-> <<>>, n |-> 0]
NaN == 999999

IsStr(x) == x.t = "string"
IsAbsent(x) == x.t \in {"null", "undefined"}

\* !x is false
Truthy(x) ==
    CASE x.t = "string" -> x.v # <<>>
      [] x.t = "object" -> TRUE
      [] x.t = "number" -> x.n # 0 /\ x.n # NaN
      [] OTHER -> FALSE

RECURSIVE TrimStart(_)
TrimStart(s) == IF s # <<>> /\ Head(s) = " " THEN TrimStart(Tail(s)) ELSE s

RECURSIVE TrimEnd(_)
TrimEnd(s) ==
    IF s # <<>> /\ s[Len(s)] = " " THEN TrimEnd(SubSeq(s, 1, Len(s) - 1)) ELSE s

\* String.prototype.trim
Trim(s) == TrimEnd(TrimStart(s))

\* String.prototype.split(sep) for a one-symbol separator: always at least one piece
RECURSIVE SplitFrom(_, _, _)
SplitFrom(s, sep, cur) ==
    IF s = <<>> THEN <<cur>>
    ELSE IF Head(s) = sep THEN <<cur>> \o SplitFrom(Tail(s), sep, <<>>)
    ELSE SplitFrom(Tail(s), sep, Append(cur, Head(s)))

Split(s, sep) == SplitFrom(s, sep, <<>>)

\* Array.prototype.join(sep), sep a sequence of symbols
RECURSIVE Join(_, _)
Join(list, sep) ==
    IF list = <<>> THEN <<>>
    ELSE IF Len(list) = 1 THEN list[1]
    ELSE list[1] \o sep \o Join(Tail(list), sep)

\* Array.prototype.map(v => v.trim())
MapTrim(list) == [k \in 1..Len(list) |-> Trim(list[k])]

Includes(list, x) == \E k \in 1..Len(list) : list[k] = x

\* value.split(',').map(v => v.trim()).filter(v => v !== '')
SplitTrimFilter(s) ==
    LET NonEmpty(v) == v # <<>> IN SelectSeq(MapTrim(Split(s, ",")), NonEmpty)

\* the number of characters of a symbol
SymLen(c) ==
    CASE c \in {" ", ",", "-", "\"", "/"} -> 1
      [] c \in {"25", "12", "31"} -> 2
      [] c \in {"2024"} -> 4
      [] OTHER -> 8

\* String.prototype.length
RECURSIVE StrLen(_)
StrLen(s) == IF s = <<>> THEN 0 ELSE SymLen(Head(s)) + StrLen(Tail(s))

\* parseFloat on the numeric texts of the model, in tenths
ParseFloat(s) ==
    LET w == Trim(s) IN
    CASE w = <<"0">> -> 0
      [] w = <<"3.5">> -> 35
      [] w = <<"-", "1">> -> -10
      [] w = <<"7">> -> 70
      [] OTHER -> NaN

\* the decimal digits of a natural number: String(n)
RECURSIVE Digits(_)
Digits(n) == IF n < 10 THEN <<n>> ELSE Append(Digits(n \div 10), n % 10)

\* String.prototype.padStart(width, fill)
RECURSIVE PadStart(_, _, _)
PadStart(s, width, fill) ==
    IF Len(s) >= width THEN s ELSE PadStart(<<fill>> \o s, width, fill)

-----------------------------------------------------------------------------
(* The record store: table "enhancements" *)

DigitSym == <<"0", "1", "2", "3", "4", "5", "6", "7", "8", "9">>

\* the text of a natural number
NumText(n) == [k \in 1..Len(Digits(n)) |-> DigitSym[Digits(n)[k] + 1]]

validTypeOfRequest == <<"Bug Fix", "New Feature", "Enhancement (UI)", "Enhancement (Feature)">>
validDesireLevel == <<"Must-have", "Nice-to-have">>
validDifficultyLevel == <<"Simple", "Complex", "Involved">>
validWhoBenefits == <<"Clients - procurement", "Clients - end users", "Suppliers", "Internal">>
validAreaOfProduct == <<"Buyer Portal", "Supplier Hub", "Procurement", "Guides", "Documentation">>
validPriorityLevel == <<"Critical", "High", "Medium", "Low">>
validStatus == <<"submitted", "review", "rejected", "approved", "development", "testing", "complete">>

\* a column value IN (...) of a CHECK constraint: NULL satisfies every CHECK
CheckIn(x, list) == x = Null \/ (Len(x.v) = 1 /\ Includes(list, x.v[1]))

\* ^(A|B|C|D)(,\s*(A|B|C|D))*$ on a text
RECURSIVE MatchesTail(_)
MatchesTail(s) ==
    \/ s = <<>>
    \/ /\ Head(s) = ","
       /\ LET r == TrimStart(Tail(s)) IN
            r # <<>> /\ Includes(validWhoBenefits, Head(r)) /\ MatchesTail(Tail(r))

MatchesWhoBenefitsPattern(s) ==
    s # <<>> /\ Includes(validWhoBenefits, Head(s)) /\ MatchesTail(Tail(s))

\* the input syntax of a DATE column: year-month-day with a real month
IsDate(s) ==
    /\ Len(s) = 5
    /\ s[2] = "-" /\ s[4] = "-"
    /\ SymLen(s[1]) = 4 /\ s[3] \in {"12"} /\ s[5] \in {"12", "25", "31"}

\* a JSON value sent for a TEXT column: undefined keys are not sent
AsColumn(x) == IF IsAbsent(x) THEN Null ELSE x

\* a JSON value sent for a DECIMAL(5,2) column: JSON.stringify writes the number
\* NaN as null; a text is read by the store, NaN when it is no number
AsDecimal(x) ==
    CASE IsAbsent(x) -> Null
      [] x.t = "number" -> IF x.n = NaN THEN Null ELSE x
      [] OTHER -> Num(ParseFloat(x.v))

\* the row the table would hold for an insert payload: column defaults applied
AsRow(id, d) ==
    [id |-> id,
     request_id |-> AsColumn(d.request_id),
     request_name |-> AsColumn(d.request_name),
     request_description |-> AsColumn(d.request_description),
     rationale |-> AsColumn(d.rationale),
     requestor_name |-> AsColumn(d.requestor_name),
     date_of_request |-> AsColumn(d.date_of_request),
     stakeholder |-> AsColumn(d.stakeholder),
     type_of_request |-> AsColumn(d.type_of_request),
     area_of_product |-> AsColumn(d.area_of_product),
     link_to_document |-> AsColumn(d.link_to_document),
     desire_level |-> AsColumn(d.desire_level),
     effort_level |-> AsDecimal(d.effort_level),
     difficulty_level |-> AsColumn(d.difficulty_level),
     who_benefits |-> AsColumn(d.who_benefits),
     timeline |-> AsColumn(d.timeline),
     status |-> IF d.status = Undefined THEN Str(<<"submitted">>) ELSE AsColumn(d.status),
     priority_level |-> IF d.priority_level = Undefined THEN Str(<<"medium">>)
                        ELSE AsColumn(d.priority_level)]

\* request_id VARCHAR(20) UNIQUE: no other row holds the same non-NULL value
RequestIdFree(table, id, rid) ==
    rid = Null \/ \A r \in table : r.id = id \/ r.request_id # rid

\* the constraint a row violates, or "ok"
Violation(table, checkWho, r) ==
    CASE \E c \in {"request_name", "request_description", "requestor_name",
                   "date_of_request", "type_of_request", "area_of_product",
                   "desire_level", "who_benefits"} : r[c] = Null -> "not_null"
      [] ~IsDate(r.date_of_request.v) -> "invalid_date"
      [] r.timeline # Null /\ ~IsDate(r.timeline.v) -> "invalid_date"
      [] r.effort_level # Null /\ r.effort_level.n = NaN -> "invalid_numeric"
      [] ~RequestIdFree(table, r.id, r.request_id) -> "request_id_key"
      [] ~CheckIn(r.desire_level, validDesireLevel) -> "check_desire_level"
      [] ~CheckIn(r.difficulty_level, validDifficultyLevel) -> "check_difficulty_level"
      [] ~CheckIn(r.status, validStatus) -> "check_status"
      [] ~CheckIn(r.priority_level, validPriorityLevel) -> "check_priority_level"
      [] ~CheckIn(r.type_of_request, validTypeOfRequest) -> "check_type_of_request"
      [] ~CheckIn(r.area_of_product, validAreaOfProduct) -> "check_area_of_product"
      [] checkWho /\ ~MatchesWhoBenefitsPattern(r.who_benefits.v) -> "check_who_benefits"
      [] r.effort_level # Null /\ r.effort_level.n < 0 -> "check_effort_level"
      [] OTHER -> "ok"

\* what the environment does to one call of the store
Faults == {"none", "error", "throw"}

\* supabase.from('enhancements').insert([d]).select(): the outcome of the call
\* under fault f, as [kind, message, data]
Insert(table, checkWho, id, d, f) ==
    LET r == AsRow(id, d)
        v == Violation(table, checkWho, r) IN
    CASE f = "throw" -> [kind |-> "throw", message |-> "fetch failed", data |-> r]
      [] f = "error" -> [kind |-> "error", message |-> "upstream unavailable", data |-> r]
      [] v # "ok" -> [kind |-> "error", message |-> v, data |-> r]
      [] OTHER -> [kind |-> "ok", message |-> "", data |-> r]

\* supabase.from('enhancements').update({request_id: rid}).eq('id', id)
UpdateRequestId(table, id, rid, f) ==
    CASE f = "throw" -> [kind |-> "throw", message |-> "fetch failed", table |-> table]
      [] f = "error" -> [kind |-> "error", message |-> "upstream unavailable", table |-> table]
      [] ~RequestIdFree(table, id, rid) ->
            [kind |-> "error", message |-> "request_id_key", table |-> table]
      [] OTHER -> [kind |-> "ok", message |-> "",
                   table |-> {IF r.id = id THEN [r EXCEPT !.request_id = rid] ELSE r :
                              r \in table}]

\* REQ- followed by the key padded to 6 digits
FinalRequestId(id) == Str(<<"REQ-">> \o PadStart(NumText(id), 6, "0"))

-----------------------------------------------------------------------------
(* The middleware chain in front of the route handlers *)

DataRoutes ==
    {"GET /api/enhancements", "GET /api/enhancements/:id", "POST /api/enhancements",
     "PUT /api/enhancements/:id", "DELETE /api/enhancements/:id",
     "GET /api/workflow/stats", "POST /api/enhancements/import-csv"}

MfaRoutes ==
    {"GET /api/mfa/status", "POST /api/mfa/enroll", "POST /api/mfa/verify-enrollment",
     "DELETE /api/mfa/disable"}

Routes == DataRoutes \cup MfaRoutes

\* the middleware a request to the route passes, in registration order
Chain(route) ==
    CASE route \in MfaRoutes -> <<"apiLimiter", "mfaLimiter", "authMiddleware">>
      [] route = "POST /api/enhancements/import-csv" ->
            <<"apiLimiter", "authMiddleware", "upload">>
      [] OTHER -> <<"apiLimiter", "authMiddleware">>

\* the sessions the identity provider knows: token -> user id
Sessions == [tokA |-> "userA", tokB |-> "userB"]

\* Authorization headers of the requests
AuthHeaders ==
    {Undefined,
     Str(<<"Basic", " ", "tokA">>),
     Str(<<"Bearer">>),
     Str(<<"Bearer", " ", "tokA">>),
     Str(<<"Bearer", " ", "tokB">>),
     Str(<<"Bearer", " ", "expired">>),
     Str(<<"Bearer", " ", " ", "tokA">>)}

\* what the identity provider does to one verification call
ProviderFaults == {"none", "error", "nouser", "throw"}

\* the factor lists a principal can have at the provider
FactorLists ==
    {<<>>,
     <<[factor_type |-> "totp", status |-> "unverified"]>>,
     <<[factor_type |-> "phone", status |-> "verified"]>>,
     <<[factor_type |-> "totp", status |-> "verified"]>>,
     <<[factor_type |-> "totp", status |-> "unverified"],
       [factor_type |-> "totp", status |-> "verified"]>>}

\* what multer finds in the request
Uploads == {"none", "csv", "wrongType", "tooLarge"}

\* a middleware either answers (next = FALSE) or calls next()
Answer(status, error) == [next |-> FALSE, status |-> status, error |-> error]
CallNext == [next |-> TRUE, status |-> 0, error |-> ""]

\* authHeader.startsWith('Bearer ')
StartsWithBearer(s) == Len(s) >= 2 /\ s[1] = "Bearer" /\ s[2] = " "

\* supabase.auth.getUser(token) under fault f: [kind, user]
GetUser(token, f) ==
    CASE f = "throw" -> [kind |-> "throw", user |-> "none"]
      [] f = "error" -> [kind |-> "error", user |-> "none"]
      [] f = "nouser" -> [kind |-> "ok", user |-> "none"]
      [] Len(token) = 1 /\ token[1] \in DOMAIN Sessions ->
            [kind |-> "ok", user |-> Sessions[token[1]]]
      [] OTHER -> [kind |-> "error", user |-> "none"]

\* authMiddleware without the `|| !user` test
authMiddleware_NoUserTest(req) ==
    LET authHeader == req.authorization IN
    IF ~Truthy(authHeader) \/ ~StartsWithBearer(authHeader.v)
    THEN [res |-> Answer(401, "Authorization header required."),
          providerCalled |-> FALSE, user |-> "none"]
    ELSE LET token == Split(authHeader.v, " ")[2]
             got == GetUser(token, req.providerFault) IN
         CASE got.kind = "throw" ->
                [res |-> Answer(500, "Internal server error during token validation."),
                 providerCalled |-> TRUE, user |-> "none"]
           [] got.kind = "error" ->
                [res |-> Answer(401, "Invalid or expired token."),
                 providerCalled |-> TRUE, user |-> "none"]
           [] OTHER -> [res |-> CallNext, providerCalled |-> TRUE, user |-> got.user]

\* authMiddleware whose catch block answers 401
authMiddleware_Catch401(req) ==
    LET authHeader == req.authorization IN
    IF ~Truthy(authHeader) \/ ~StartsWithBearer(authHeader.v)
    THEN [res |-> Answer(401, "Authorization header required."),
          providerCalled |-> FALSE, user |-> "none"]
    ELSE LET token == Split(authHeader.v, " ")[2]
             got == GetUser(token, req.providerFault) IN
         CASE got.kind = "throw" \/ got.kind = "error" \/ got.user = "none" ->
                [res |-> Answer(401, "Invalid or expired token."),
                 providerCalled |-> TRUE, user |-> "none"]
           [] OTHER -> [res |-> CallNext, providerCalled |-> TRUE, user |-> got.user]

\* the outcome of authMiddleware: its answer, whether the provider was called,
\* and req.user
authMiddleware(req) ==
    LET authHeader == req.authorization IN
    IF ~Truthy(authHeader) \/ ~StartsWithBearer(authHeader.v)
    THEN [res |-> Answer(401, "Authorization header required."),
          providerCalled |-> FALSE, user |-> "none"]
    ELSE LET token == Split(authHeader.v, " ")[2]
             got == GetUser(token, req.providerFault) IN
         CASE got.kind = "throw" ->
                [res |-> Answer(500, "Internal server error during token validation."),
                 providerCalled |-> TRUE, user |-> "none"]
           [] got.kind = "error" \/ got.user = "none" ->
                [res |-> Answer(401, "Invalid or expired token."),
                 providerCalled |-> TRUE, user |-> "none"]
           [] OTHER -> [res |-> CallNext, providerCalled |-> TRUE, user |-> got.user]

\* a filter on the status alone
verifiedFactors_AnyType(factors) ==
    LET IsVerified(f) == f.status = "verified" IN
    SelectSeq(factors, IsVerified)

\* data?.factors?.filter(f => f.factor_type === 'totp' && f.status === 'verified')
verifiedFactors(factors) ==
    LET IsVerifiedTotp(f) == f.factor_type = "totp" /\ f.status = "verified" IN
    SelectSeq(factors, IsVerifiedTotp)

\* the outcome of enforceMfaMiddleware under fault f of the factor listing call
enforceMfaMiddleware(req, f) ==
    CASE f = "throw" -> Answer(500, "Internal server error during MFA verification.")
      [] f = "error" -> Answer(500, "Failed to verify MFA status")
      [] Len(verifiedFactors(req.factors)) = 0 -> Answer(403, "MFA_REQUIRED")
      [] OTHER -> CallNext

\* rate limiter m: answers 429 once the client's counter of its window is used up
rateLimit(req, m) ==
    IF req.overLimit = m THEN Answer(429, "Too many requests") ELSE CallNext

\* multer: upload.single('csvFile') with the fileFilter and the size limit; an
\* error goes to the error handling middleware
upload(req) ==
    IF req.file \in {"wrongType", "tooLarge"}
    THEN Answer(500, "Something went wrong!")
    ELSE CallNext

\* runs the chain from position k; ctx carries what the middleware attached
RECURSIVE RunChain(_, _, _, _)
RunChain(chain, k, req, ctx) ==
    IF k > Len(chain)
    THEN [ctx EXCEPT !.handler = TRUE, !.by = "handler"]
    ELSE LET m == chain[k] IN
         CASE m = "authMiddleware" ->
                LET a == authMiddleware(req) IN
                IF a.res.next
                THEN RunChain(chain, k + 1, req,
                              [ctx EXCEPT !.providerCalled = a.providerCalled,
                                          !.user = a.user])
                ELSE [ctx EXCEPT !.providerCalled = a.providerCalled, !.by = m,
                                 !.status = a.res.status, !.error = a.res.error]
           [] OTHER ->
                LET r == CASE m = "enforceMfaMiddleware" -> enforceMfaMiddleware(req, "none")
                           [] m = "upload" -> upload(req)
                           [] OTHER -> rateLimit(req, m) IN
                IF r.next
                THEN RunChain(chain, k + 1, req, ctx)
                ELSE [ctx EXCEPT !.by = m, !.status = r.status, !.error = r.error]

NoRequest ==
    [route |-> "none", authorization |-> Undefined, providerFault |-> "none",
     factors |-> <<>>, overLimit |-> "none", file |-> "none"]

NoOutcome ==
    [handler |-> FALSE, by |-> "none", status |-> 0, error |-> "",
     providerCalled |-> FALSE, user |-> "none"]

\* one request travels the chain of its route
GateRequest ==
    /\ gate = [req |-> NoRequest, out |-> NoOutcome]
    /\ \E route \in Routes, h \in AuthHeaders, pf \in ProviderFaults,
          fs \in FactorLists, over \in {"none", "apiLimiter", "mfaLimiter"},
          file \in Uploads :
        /\ file # "none" => route = "POST /api/enhancements/import-csv"
        /\ over = "mfaLimiter" => route \in MfaRoutes
        /\ LET req == [route |-> route, authorization |-> h, providerFault |-> pf,
                       factors |-> fs, overLimit |-> over, file |-> file] IN
             gate' = [req |-> req, out |-> RunChain(Chain(route), 1, req, NoOutcome)]
        /\ UNCHANGED <<laterVars, enhancements, nextId, whoBenefitsCheck, now, createRes, getRes,
                       importVars>>

-----------------------------------------------------------------------------
(* POST /api/enhancements and GET /api/enhancements/:id *)

\* every text of at most n symbols over alphabet A
RECURSIVE Texts(_, _)
Texts(A, n) ==
    IF n = 0 THEN {<<>>}
    ELSE LET shorter == Texts(A, n - 1) IN
         shorter \cup {Append(s, c) : s \in shorter, c \in A}

\* a request body every check of the handler and of the table accepts
BaseBody ==
    [requestName |-> Str(<<"Export">>),
     requestDescription |-> Str(<<"Export to PDF">>),
     rationale |-> Str(<<"Asked by clients">>),
     requestorName |-> Str(<<"Pieter">>),
     dateOfRequest |-> Str(<<"2024", "-", "12", "-", "25">>),
     stakeholder |-> Undefined,
     typeOfRequest |-> Str(<<"New Feature">>),
     areaOfProduct |-> Str(<<"Buyer Portal">>),
     linkToDocument |-> Undefined,
     desireLevel |-> Str(<<"Must-have">>),
     effortLevel |-> Undefined,
     difficultyLevel |-> Undefined,
     whoBenefits |-> Str(<<"Internal">>),
     timeline |-> Undefined,
     priorityLevel |-> Undefined]

WhoBenefitsAlphabet == {"Suppliers", "Internal", "Admins", ",", " "}

\* the values tried for each field of the body
FieldValues(f) ==
    CASE f = "whoBenefits" ->
            {Str(s) : s \in Texts(WhoBenefitsAlphabet, MaxStrLen)} \cup {Undefined, Array}
      [] f = "effortLevel" ->
            {Num(0), Num(35), Num(-10), Str(<<"3.5">>), Str(<<"-", "1">>), Str(<<"abc">>)}
      [] f = "dateOfRequest" ->
            {Undefined, Str(<<"25", "-", "12", "-", "2024">>),
             Str(<<"12", "-", "25", "-", "2024">>), Str(<<"25", "/", "12", "/", "2024">>)}
      [] f = "typeOfRequest" -> {Undefined, Str(<<"Feature">>), Str(<<"Bug Fix">>)}
      [] f = "areaOfProduct" -> {Str(<<>>), Str(<<"Frontend">>), Str(<<"Guides">>)}
      [] f = "desireLevel" -> {Null, Str(<<"High">>), Str(<<"Nice-to-have">>)}
      [] f = "difficultyLevel" -> {Str(<<"Simple">>), Str(<<"Hard">>)}
      [] f = "priorityLevel" -> {Str(<<"Critical">>), Str(<<"urgent">>)}
      [] f = "rationale" -> {Undefined, Str(<<" ">>)}
      [] f = "timeline" -> {Str(<<"2024", "-", "12", "-", "31">>)}
      [] OTHER -> {Undefined, Str(<<>>)}

\* the request bodies of the model: BaseBody with at most one field changed
Bodies == {BaseBody} \cup
    {[BaseBody EXCEPT ![f] = x] : <<f, x>> \in
        UNION {{<<g, y>> : y \in FieldValues(g)} : g \in DOMAIN BaseBody}}

\* whoBenefits.split(',').map(v => v.trim()).filter(v => v !== '')
whoBenefitsArray(whoBenefits) == SplitTrimFilter(whoBenefits.v)

\* the filter applied to the pieces as split, before they are trimmed
invalidWhoBenefits_NoTrim(whoBenefits) ==
    LET Invalid(v) == v # <<>> /\ ~(Len(v) = 1 /\ Includes(validWhoBenefits, v[1])) IN
    SelectSeq(Split(whoBenefits.v, ","), Invalid)

\* whoBenefitsArray.filter(v => !validWhoBenefits.includes(v))
invalidWhoBenefits(whoBenefits) ==
    LET Invalid(v) == ~(Len(v) = 1 /\ Includes(validWhoBenefits, v[1])) IN
    SelectSeq(whoBenefitsArray(whoBenefits), Invalid)

\* the required fields of the create handler that are missing in the body
missingRequired(body) ==
    {f \in {"requestName", "requestDescription", "requestorName", "dateOfRequest",
            "typeOfRequest", "areaOfProduct", "desireLevel", "whoBenefits"} :
        ~Truthy(body[f])}

\* `TEMP-${Date.now()}`
tempRequestId(clock) == Str(<<"TEMP-">> \o NumText(clock))

\* the date handling that converts every date of three parts
formattedDate_NoLengthTest(dateOfRequest) ==
    LET dateParts == Split(dateOfRequest.v, "-") IN
    IF Includes(dateOfRequest.v, "-") /\ Len(dateParts) = 3
    THEN Str(dateParts[3] \o <<"-">> \o dateParts[2] \o <<"-">> \o dateParts[1])
    ELSE dateOfRequest

\* formattedDate of the create handler
formattedDate(dateOfRequest) ==
    LET dateParts == Split(dateOfRequest.v, "-") IN
    IF Includes(dateOfRequest.v, "-") /\ Len(dateParts) = 3 /\ StrLen(dateParts[1]) = 2
    THEN Str(dateParts[3] \o <<"-">> \o dateParts[2] \o <<"-">> \o dateParts[1])
    ELSE dateOfRequest

\* enhancementData of the create handler
enhancementData(body, clock) ==
    [request_id |-> tempRequestId(clock),
     request_name |-> body.requestName,
     request_description |-> body.requestDescription,
     rationale |-> IF Truthy(body.rationale) /\ Trim(body.rationale.v) # <<>>
                   THEN body.rationale ELSE Str(<<"Not specified">>),
     requestor_name |-> body.requestorName,
     date_of_request |-> formattedDate(body.dateOfRequest),
     stakeholder |-> body.stakeholder,
     type_of_request |-> body.typeOfRequest,
     area_of_product |-> body.areaOfProduct,
     link_to_document |-> body.linkToDocument,
     desire_level |-> body.desireLevel,
     effort_level |-> body.effortLevel,
     difficulty_level |-> body.difficultyLevel,
     who_benefits |-> body.whoBenefits,
     timeline |-> body.timeline,
     status |-> Undefined,
     priority_level |-> IF Truthy(body.priorityLevel) THEN body.priorityLevel
                        ELSE Str(<<"Medium">>)]

\* no response yet; req and body hold at most one element, the request body
\* and the JSON body of a 200 response
NoResponse ==
    [status |-> 0, error |-> "", message |-> "", invalid |-> <<>>, body |-> <<>>,
     req |-> <<>>, insertSent |-> FALSE, updateSent |-> FALSE]

\* the response of the create handler that ends before the store is called
Rejected(body, error, invalid) ==
    [NoResponse EXCEPT !.status = 400, !.error = error, !.invalid = invalid,
                       !.req = <<body>>]

\* POST /api/enhancements: the whole handler, fi and fu the faults of its two
\* store calls
CreateFrom(bodies) ==
    /\ createRes = NoResponse
    /\ \E body \in bodies, fi \in Faults, fu \in Faults :
        /\ IF missingRequired(body) # {}
           THEN /\ createRes' = Rejected(body, "Missing required fields", <<>>)
                /\ UNCHANGED storeVars
           ELSE IF ~IsStr(body.whoBenefits)
           THEN /\ createRes' = Rejected(body, "Invalid Who Benefits format", <<>>)
                /\ UNCHANGED storeVars
           ELSE IF Len(invalidWhoBenefits(body.whoBenefits)) > 0
           THEN /\ createRes' = Rejected(body, "Invalid Who Benefits values",
                                         invalidWhoBenefits(body.whoBenefits))
                /\ UNCHANGED storeVars
           ELSE LET ins == Insert(enhancements, whoBenefitsCheck, nextId,
                                  enhancementData(body, now), fi)
                    requestId == FinalRequestId(nextId)
                    upd == UpdateRequestId(enhancements \cup {ins.data}, nextId,
                                           requestId, fu)
                    sent == [NoResponse EXCEPT !.req = <<body>>, !.insertSent = TRUE] IN
                CASE ins.kind = "throw" ->
                        /\ createRes' = [sent EXCEPT !.status = 500,
                                            !.error = "Failed to create enhancement",
                                            !.message = ins.message]
                        /\ UNCHANGED storeVars
                  [] ins.kind = "error" ->
                        /\ createRes' = [sent EXCEPT !.status = 500,
                                            !.error = "Database error",
                                            !.message = ins.message]
                        /\ UNCHANGED storeVars
                  [] OTHER ->
                        /\ nextId' = nextId + 1
                        /\ enhancements' = upd.table
                        /\ createRes' =
                             IF upd.kind = "throw"
                             THEN [sent EXCEPT !.status = 500, !.updateSent = TRUE,
                                       !.error = "Failed to create enhancement",
                                       !.message = upd.message]
                             ELSE [sent EXCEPT !.status = 200, !.updateSent = TRUE,
                                       !.body = <<[ins.data EXCEPT
                                                      !.request_id = requestId]>>]
        /\ UNCHANGED <<laterVars, whoBenefitsCheck, now, gate, getRes, importVars>>

Create == CreateFrom(Bodies)

\* the fields of transformedData of the get-by-id handler
transformedData(data) ==
    [id |-> data.id,
     requestName |-> data.request_name,
     requestDescription |-> data.request_description,
     rationale |-> data.rationale,
     requestorName |-> data.requestor_name,
     dateOfRequest |-> data.date_of_request,
     stakeholder |-> data.stakeholder,
     typeOfRequest |-> data.type_of_request,
     areaOfProduct |-> data.area_of_product,
     linkToDocument |-> data.link_to_document,
     desireLevel |-> data.desire_level,
     effortLevel |-> data.effort_level,
     difficultyLevel |-> data.difficulty_level,
     whoBenefits |-> data.who_benefits,
     status |-> data.status,
     priorityLevel |-> data.priority_level]

\* the fields of an entry of transformedData of the list handler that the model
\* follows
listEntry(enhancement) ==
    [id |-> enhancement.id,
     requestId |-> enhancement.request_id,
     requestName |-> enhancement.request_name,
     whoBenefits |-> enhancement.who_benefits,
     status |-> enhancement.status]

\* the rows of a table, newest first
RECURSIVE NewestFirst(_)
NewestFirst(table) ==
    IF table = {} THEN <<>>
    ELSE LET newest == CHOOSE r \in table : \A q \in table : q.id <= r.id IN
         <<newest>> \o NewestFirst(table \ {newest})

\* no fetch yet; body holds the records of the JSON body of a 200 response
NoGet == [status |-> 0, route |-> "none", id |-> 0, body |-> <<>>]

\* GET /api/enhancements/:id under fault f of the select
GetById ==
    \E id \in {r.id : r \in enhancements} \cup {0}, f \in Faults :
        /\ getRes' =
             LET sent == [NoGet EXCEPT !.route = "GET /api/enhancements/:id", !.id = id] IN
             IF f # "none" THEN [sent EXCEPT !.status = 500]
             ELSE IF \E r \in enhancements : r.id = id
             THEN [sent EXCEPT !.status = 200,
                       !.body = <<transformedData(CHOOSE r \in enhancements : r.id = id)>>]
             ELSE [sent EXCEPT !.status = 404]
        /\ UNCHANGED <<laterVars, enhancements, nextId, whoBenefitsCheck, now, gate, createRes,
                       importVars>>

\* GET /api/enhancements without a filter, under fault f of the select
GetAll ==
    \E f \in Faults :
        /\ getRes' =
             LET sent == [NoGet EXCEPT !.route = "GET /api/enhancements"]
                 data == NewestFirst(enhancements) IN
             IF f # "none" THEN [sent EXCEPT !.status = 500]
             ELSE [sent EXCEPT !.status = 200,
                       !.body = [k \in 1..Len(data) |-> listEntry(data[k])]]
        /\ UNCHANGED <<laterVars, enhancements, nextId, whoBenefitsCheck, now, gate, createRes,
                       importVars>>

\* time passes
Tick ==
    /\ now < MaxClock
    /\ now' = now + 1
    /\ UNCHANGED <<laterVars, enhancements, nextId, whoBenefitsCheck, gate, createRes, getRes,
                   importVars>>

-----------------------------------------------------------------------------
(* POST /api/enhancements/import-csv *)

ErrorCap == 50

requiredFields ==
    <<"Request Name", "Request Description", "Requestor Name",
      "Date of Request (DD-MM-YYYY)", "Type of Request", "Area of Product",
      "Desire Level", "Who Benefits">>

\* enumValidations, in the order of Object.entries
enumFields ==
    <<"Type of Request", "Desire Level", "Difficulty Level", "Who Benefits",
      "Area of Product", "Priority Level">>

enumValidations(field) ==
    CASE field = "Type of Request" -> validTypeOfRequest
      [] field = "Desire Level" -> validDesireLevel
      [] field = "Difficulty Level" -> validDifficultyLevel
      [] field = "Who Benefits" -> validWhoBenefits
      [] field = "Area of Product" -> validAreaOfProduct
      [] OTHER -> validPriorityLevel

\* a parsed row every check of the handler and of the table accepts
BaseRow ==
    "Request Name" :> Str(<<"Export">>) @@
    "Request Description" :> Str(<<"Export to PDF">>) @@
    "Rationale" :> Str(<<>>) @@
    "Requestor Name" :> Str(<<"Pieter">>) @@
    "Date of Request (DD-MM-YYYY)" :> Str(<<"25", "-", "12", "-", "2024">>) @@
    "Benefactor" :> Str(<<>>) @@
    "Type of Request" :> Str(<<"Bug Fix">>) @@
    "Area of Product" :> Str(<<"Guides">>) @@
    "Link to Document" :> Str(<<>>) @@
    "Desire Level" :> Str(<<"Nice-to-have">>) @@
    "Effort Level" :> Str(<<"3.5">>) @@
    "Difficulty Level" :> Str(<<>>) @@
    "Who Benefits" :> Str(<<"Suppliers", ",", " ", "Internal">>) @@
    "Due Date" :> Str(<<>>) @@
    "Priority Level" :> Str(<<>>)

\* the rows of the uploaded files: BaseRow with one cell changed
CsvRows ==
    {BaseRow,
     [BaseRow EXCEPT !["Request Name"] = Str(<<" ">>)],
     [BaseRow EXCEPT !["Type of Request"] = Str(<<"Feature">>)],
     [BaseRow EXCEPT !["Who Benefits"] = Str(<<"Suppliers", ",", "Admins">>)],
     [BaseRow EXCEPT !["Who Benefits"] = Str(<<",">>)],
     [BaseRow EXCEPT !["Who Benefits"] =
         Str(<<"\"", "Internal", " ", ",", "Suppliers", "\"">>)],
     [BaseRow EXCEPT !["Effort Level"] = Str(<<"-", "1">>)],
     [BaseRow EXCEPT !["Effort Level"] = Str(<<"abc">>)],
     [BaseRow EXCEPT !["Effort Level"] = Str(<<"0">>)],
     [BaseRow EXCEPT !["Effort Level"] = Undefined],
     [BaseRow EXCEPT !["Request Name"] = Str(<<" ">>),
                     !["Type of Request"] = Str(<<"Feature">>),
                     !["Effort Level"] = Str(<<"abc">>)],
     [BaseRow EXCEPT !["Request Name"] = Undefined, !["Desire Level"] = Str(<<>>)],
     [BaseRow EXCEPT !["Benefactor"] = Str(<<" ">>)],
     [BaseRow EXCEPT !["Link to Document"] = Str(<<" ">>)],
     [BaseRow EXCEPT !["Difficulty Level"] = Str(<<" ">>)],
     [BaseRow EXCEPT !["Effort Level"] = Str(<<" ">>)],
     [BaseRow EXCEPT !["Priority Level"] = Str(<<" ">>)],
     [BaseRow EXCEPT !["Due Date"] = Str(<<" ">>), !["Rationale"] = Str(<<" ">>)],
     [BaseRow EXCEPT !["Due Date"] = Str(<<"31", "-", "12", "-", "2024">>)],
     [BaseRow EXCEPT !["Due Date"] = Str(<<"2024", "-", "12", "-", "31">>)],
     [BaseRow EXCEPT !["Due Date"] = Str(<<"12", "-", "2024">>)],
     [BaseRow EXCEPT !["Benefactor"] = Str(<<"Ops">>),
                     !["Link to Document"] = Str(<<"wiki">>),
                     !["Difficulty Level"] = Str(<<"Complex">>),
                     !["Priority Level"] = Str(<<"High">>),
                     !["Rationale"] = Str(<<"Asked by clients">>)]}

\* the rows that make up the longer files: accepted, missing a required field,
\* holding an invalid value, passing validation with no who-benefits value left
LoopRows ==
    {BaseRow,
     [BaseRow EXCEPT !["Request Name"] = Str(<<" ">>)],
     [BaseRow EXCEPT !["Who Benefits"] = Str(<<"Suppliers", ",", "Admins">>)],
     [BaseRow EXCEPT !["Who Benefits"] = Str(<<",">>)]}

\* files with as many failing rows as the response lists, and more: rows that
\* lack their name, alone or followed by one row that passes validation
LongFiles ==
    LET nameless == [BaseRow EXCEPT !["Request Name"] = Str(<<" ">>)] IN
    UNION {{[k \in 1..n |-> nameless],
            [k \in 1..(n + 1) |-> IF k <= n THEN nameless ELSE BaseRow]} :
           n \in {ErrorCap, ErrorCap + 2}}

\* the parsed files: at most MaxRows rows of LoopRows, any one row of CsvRows,
\* or one of LongFiles
Files ==
    UNION {[1..n -> LoopRows] : n \in 0..MaxRows} \cup {<<r>> : r \in CsvRows}
    \cup LongFiles

\* !row[field] || row[field].trim() === ''
Blank(x) == ~Truthy(x) \/ Trim(x.v) = <<>>

\* the filter without the test of the trimmed cell: !row[field] alone
missingFields_NoTrim(row) ==
    LET Missing(field) == ~Truthy(row[field]) IN SelectSeq(requiredFields, Missing)

\* requiredFields.filter(field => !row[field] || row[field].trim() === '')
missingFields(row) ==
    LET Missing(field) == Blank(row[field]) IN SelectSeq(requiredFields, Missing)

\* value.startsWith('"') && value.endsWith('"') ? value.slice(1, -1) : value
StripQuotes(s) ==
    IF s # <<>> /\ Head(s) = "\"" /\ s[Len(s)] = "\""
    THEN SubSeq(s, 2, Len(s) - 1)
    ELSE s

\* values of the 'Who Benefits' cell
whoBenefitsValues(cell) == SplitTrimFilter(StripQuotes(Trim(cell.v)))

\* the invalid pieces of an enum cell: for 'Who Benefits' the invalid values,
\* for the other fields the trimmed cell when it is no member
invalidValues(field, cell) ==
    LET Invalid(v) == ~(Len(v) = 1 /\ Includes(enumValidations(field), v[1])) IN
    IF field = "Who Benefits" THEN SelectSeq(whoBenefitsValues(cell), Invalid)
    ELSE SelectSeq(<<Trim(cell.v)>>, Invalid)

\* the effort cell is present and is no number >= 0
badEffort(row) ==
    /\ ~Blank(row["Effort Level"])
    /\ LET effortValue == ParseFloat(Trim(row["Effort Level"].v)) IN
         effortValue = NaN \/ effortValue < 0

\* validationErrors of a row that has its required fields
validationErrors(row) ==
    LET Bad(field) == ~Blank(row[field]) /\ Len(invalidValues(field, row[field])) > 0
        bad == SelectSeq(enumFields, Bad) IN
    [k \in 1..Len(bad) |-> [field |-> bad[k], invalid |-> invalidValues(bad[k], row[bad[k]])]]
    \o (IF badEffort(row) THEN <<[field |-> "Effort Level", invalid |-> <<>>]>> ELSE <<>>)

\* the row after the enum loop: row['Who Benefits'] = values.join(', ')
formattedRow(row) ==
    IF Blank(row["Who Benefits"]) THEN row
    ELSE [row EXCEPT !["Who Benefits"] =
             Str(Join(whoBenefitsValues(row["Who Benefits"]), <<",", " ">>))]

\* the k-th piece of a destructured split, "undefined" when there is none
Piece(parts, k) == IF k <= Len(parts) THEN parts[k] ELSE <<"undefined">>

\* `${year}-${month}-${day}` of a day-month-year text
importDate(cell) ==
    LET parts == Split(Trim(cell.v), "-") IN
    Str(Piece(parts, 3) \o <<"-">> \o Piece(parts, 2) \o <<"-">> \o Piece(parts, 1))

\* formattedTimeline
formattedTimeline(cell) ==
    IF Blank(cell) THEN Null
    ELSE LET timelineValue == Trim(cell.v)
             parts == Split(timelineValue, "-") IN
         IF Includes(timelineValue, "-")
         THEN IF Len(parts) >= 3 /\ parts[1] # <<>> /\ parts[2] # <<>> /\ parts[3] # <<>>
              THEN Str(parts[3] \o <<"-">> \o parts[2] \o <<"-">> \o parts[1])
              ELSE Null
         ELSE Str(timelineValue)

\* cell ? cell.trim() : null
TrimOrNull(cell) == IF Truthy(cell) THEN Str(Trim(cell.v)) ELSE Null

\* enhancementData of the import handler, of the row after the enum loop
importData(row) ==
    [request_id |-> Undefined,
     request_name |-> Str(Trim(row["Request Name"].v)),
     request_description |-> Str(Trim(row["Request Description"].v)),
     rationale |-> IF ~Blank(row["Rationale"]) THEN Str(Trim(row["Rationale"].v))
                   ELSE Str(<<"Not specified">>),
     requestor_name |-> Str(Trim(row["Requestor Name"].v)),
     date_of_request |-> importDate(row["Date of Request (DD-MM-YYYY)"]),
     stakeholder |-> TrimOrNull(row["Benefactor"]),
     type_of_request |-> Str(Trim(row["Type of Request"].v)),
     area_of_product |-> Str(Trim(row["Area of Product"].v)),
     link_to_document |-> TrimOrNull(row["Link to Document"]),
     desire_level |-> Str(Trim(row["Desire Level"].v)),
     effort_level |-> IF Truthy(row["Effort Level"])
                      THEN Num(ParseFloat(Trim(row["Effort Level"].v))) ELSE Null,
     difficulty_level |-> TrimOrNull(row["Difficulty Level"]),
     who_benefits |-> Str(Trim(row["Who Benefits"].v)),
     timeline |-> formattedTimeline(row["Due Date"]),
     status |-> Str(<<"submitted">>),
     priority_level |-> IF Truthy(row["Priority Level"])
                        THEN Str(Trim(row["Priority Level"].v)) ELSE Str(<<"Medium">>)]

\* an entry of the error list: `Row ${rowNum}: ...`
RowError(rowNum, kind, fields, validation, message) ==
    [row |-> rowNum, kind |-> kind, fields |-> fields, validation |-> validation,
     message |-> message]

\* a push that also runs the enum loop and the effort test on the row
missingError_WithValidation(rowNum, row) ==
    RowError(rowNum, "missing", missingFields(row), validationErrors(row), "")

\* errors.push(`Row ${rowNum}: Missing required fields: ${missingFields.join(', ')}`)
missingError(rowNum, row) == RowError(rowNum, "missing", missingFields(row), <<>>, "")

\* errors.push(`Row ${rowNum}: ${validationErrors.join('; ')}`)
validationError(rowNum, row) ==
    RowError(rowNum, "validation", <<>>, validationErrors(row), "")

\* the push that drops the message of the store
databaseError_NoMessage(rowNum, message) == RowError(rowNum, "database", <<>>, <<>>, "")

\* errors.push(`Row ${rowNum}: Database error - ${error.message}`)
databaseError(rowNum, message) == RowError(rowNum, "database", <<>>, <<>>, message)

\* the catch block: errors.push(`Row ${rowNum}: ${error.message}`)
exceptionError(rowNum, message) == RowError(rowNum, "exception", <<>>, <<>>, message)

\* the response that lists every error
firstErrors_All(list) == list

\* errors.slice(0, 50)
firstErrors(list) == SubSeq(list, 1, IF Len(list) < ErrorCap THEN Len(list) ELSE ErrorCap)

NoImport == [status |-> 0, successful |-> 0, failed |-> 0, total |-> 0, errors |-> <<>>]

\* the handler starts: the upload is parsed into results
ImportOf(files) ==
    /\ importPc = "idle"
    /\ \E file \in files, present \in BOOLEAN :
        IF present
        THEN /\ results' = file
             /\ importPc' = "loop"
             /\ UNCHANGED importRes
        ELSE /\ importRes' = [NoImport EXCEPT !.status = 400]
             /\ importPc' = "done"
             /\ UNCHANGED results
    /\ i' = 0 /\ successful' = 0 /\ failed' = 0 /\ errors' = <<>> /\ rowLog' = <<>>
    /\ UNCHANGED <<laterVars, enhancements, nextId, whoBenefitsCheck, now, gate, createRes, getRes>>

ImportStart == ImportOf(Files)

\* one iteration of the row loop, fi and fu the faults of its two store calls
ImportRow ==
    /\ importPc = "loop"
    /\ i < Len(results)
    /\ \E fi \in Faults, fu \in Faults :
        LET row == results[i + 1]
            rowNum == i + 1
            log == [validated |-> FALSE, insert |-> "none", update |-> "none", id |-> 0,
                    message |-> ""]
        IN
        IF Len(missingFields(row)) > 0
        THEN /\ errors' = Append(errors, missingError(rowNum, row))
             /\ failed' = failed + 1
             /\ rowLog' = Append(rowLog, log)
             /\ UNCHANGED <<successful, storeVars>>
        ELSE IF Len(validationErrors(row)) > 0
        THEN /\ errors' = Append(errors, validationError(rowNum, row))
             /\ failed' = failed + 1
             /\ rowLog' = Append(rowLog, log)
             /\ UNCHANGED <<successful, storeVars>>
        ELSE LET ins == Insert(enhancements, whoBenefitsCheck, nextId,
                               importData(formattedRow(row)), fi)
                 upd == UpdateRequestId(enhancements \cup {ins.data}, nextId,
                                        FinalRequestId(nextId), fu)
                 vlog == [log EXCEPT !.validated = TRUE, !.insert = ins.kind,
                                   !.message = ins.message] IN
             CASE ins.kind = "throw" ->
                    /\ errors' = Append(errors, exceptionError(rowNum, ins.message))
                    /\ failed' = failed + 1
                    /\ rowLog' = Append(rowLog, vlog)
                    /\ UNCHANGED <<successful, storeVars>>
               [] ins.kind = "error" ->
                    /\ errors' = Append(errors, databaseError(rowNum, ins.message))
                    /\ failed' = failed + 1
                    /\ rowLog' = Append(rowLog, vlog)
                    /\ UNCHANGED <<successful, storeVars>>
               [] OTHER ->
                    /\ nextId' = nextId + 1
                    /\ enhancements' = upd.table
                    /\ rowLog' = Append(rowLog, [vlog EXCEPT !.update = upd.kind,
                                                             !.id = nextId])
                    /\ IF upd.kind = "throw"
                       THEN /\ errors' = Append(errors, exceptionError(rowNum, upd.message))
                            /\ failed' = failed + 1
                            /\ UNCHANGED successful
                       ELSE /\ successful' = successful + 1
                            /\ UNCHANGED <<errors, failed>>
    /\ i' = i + 1
    /\ UNCHANGED <<laterVars, whoBenefitsCheck, now, gate, createRes, getRes, importPc, results,
                   importRes>>

\* a summary whose total is the count of the rows inserted
importSummary_TotalInserted(s, f, rs, es) ==
    [status |-> 200, successful |-> s, failed |-> f, total |-> s,
     errors |-> firstErrors(es)]

\* res.json({ message, summary: { total: results.length, successful, failed,
\* errors: errors.slice(0, 50) } })
importSummary(s, f, rs, es) ==
    [status |-> 200, successful |-> s, failed |-> f, total |-> Len(rs),
     errors |-> firstErrors(es)]

\* after the loop: the summary response
ImportFinish ==
    /\ importPc = "loop"
    /\ i = Len(results)
    /\ importRes' = importSummary(successful, failed, results, errors)
    /\ importPc' = "done"
    /\ UNCHANGED <<laterVars, enhancements, nextId, whoBenefitsCheck, now, gate, createRes, getRes,
                   results, i, successful, failed, errors, rowLog>>

-----------------------------------------------------------------------------
(* POST /api/slack/new-request *)

FreshnessWindow == 300     \* seconds between the timestamp header and now
HexDigestLength == 64      \* characters of an HMAC-SHA256 digest in hex

\* process.env.SLACK_SIGNING_SECRET when it is configured
SigningSecret == "signing secret"

\* a text of more than 50 characters and its first 50 characters
LongText == "Add an export of all requests to PDF with their history"
LongTextCut == "Add an export of all requests to PDF with their hi"

\* the raw bodies of the requests: the urlencoded form as alternating names and
\* values; <<"undefined">> is the body whose text is the word undefined
RawBodies ==
    {<<>>,
     <<"text", "Add export", "user_id", "U1", "user_name", "pieter",
       "channel_name", "general">>,
     <<"text", "Add export">>,
     <<"text", "Drop export">>,
     <<"text", " ">>,
     <<"text", LongText>>,
     <<"undefined">>}

ContentTypes == {"application/x-www-form-urlencoded", "text/plain"}

\* the text of an integer: String(n)
IntText(n) == IF n < 0 THEN <<"-">> \o NumText(0 - n) ELSE NumText(n)

\* the value of a digit symbol, 10 for any other symbol
DigitValue(c) ==
    IF \E d \in 1..Len(DigitSym) : DigitSym[d] = c
    THEN (CHOOSE d \in 1..Len(DigitSym) : DigitSym[d] = c) - 1
    ELSE 10

\* the value of the leading digits of a text, acc the value read so far
RECURSIVE ParseDigits(_, _)
ParseDigits(s, acc) ==
    IF s = <<>> \/ DigitValue(Head(s)) = 10 THEN acc
    ELSE ParseDigits(Tail(s), 10 * acc + DigitValue(Head(s)))

\* parseInt: an optional sign and the leading digits, NaN when there is no digit
ParseInt(s) ==
    LET w == TrimStart(s)
        neg == w # <<>> /\ Head(w) = "-"
        d == IF neg THEN Tail(w) ELSE w IN
    IF d = <<>> \/ DigitValue(Head(d)) = 10 THEN NaN
    ELSE IF neg THEN 0 - ParseDigits(d, 0) ELSE ParseDigits(d, 0)

\* Math.abs
Abs(x) == IF x < 0 THEN 0 - x ELSE x

\* `${x}` of a template literal
TemplateText(x) ==
    CASE x = Undefined -> <<"undefined">>
      [] x = Null -> <<"null">>
      [] OTHER -> x.v

\* crypto.createHmac('sha256', key).update(msg).digest('hex'): the digest names
\* its key and its message, so that different inputs give different digests
Hmac(key, msg) == <<"hmac", key>> \o msg

\* Buffer.from(s, 'utf8').length of a signature text
ByteLength(s) ==
    CASE s = <<>> -> 0
      [] Len(s) >= 2 /\ s[1] = "v0=" /\ s[2] \in {"hmac", "0000"} -> 3 + HexDigestLength
      [] OTHER -> Len(s)

\* the signature the sender computes with key over the timestamp and raw body
SlackSign(key, timestamp, raw) ==
    <<"v0=">> \o Hmac(key, <<"v0:">> \o timestamp \o <<":">> \o raw)

\* X-Slack-Request-Timestamp headers: absent, no number, and the seconds
\* around both ends of the freshness window
TimestampHeaders ==
    {Undefined, Str(<<"abc">>)} \cup
    {Str(IntText(d)) : d \in {0 - FreshnessWindow - 1, 0 - FreshnessWindow, 0,
                              FreshnessWindow, FreshnessWindow + 1}}

\* X-Slack-Signature headers of a request with timestamp ts: absent, signed
\* with the secret over any of the raw bodies, signed with another key, a
\* digest that was not computed, and a text of another length
SignatureHeaders(ts, raw) ==
    {Undefined, Str(<<"v0=", "0000">>), Str(<<"v0=">>),
     Str(SlackSign("guessed secret", TemplateText(ts), raw))} \cup
    {Str(SlackSign(SigningSecret, TemplateText(ts), r)) : r \in RawBodies}

\* bodyParser.urlencoded: parses a body no earlier parser has parsed; verify
\* is the option that stores the raw body
urlencoded(req, verify) ==
    IF req._body THEN req
    ELSE IF req.raw = <<>> \/ req.contentType # "application/x-www-form-urlencoded"
    THEN req
    ELSE [req EXCEPT !.body = req.raw, !._body = TRUE,
                     !.rawBody = IF verify THEN Str(req.raw) ELSE @]

\* req.body[name] of a parsed form
FormField(body, name) ==
    LET at == {k \in 1..Len(body) : k % 2 = 1 /\ k < Len(body) /\ body[k] = name} IN
    IF at = {} THEN Undefined
    ELSE Str(<<body[(CHOOSE k \in at : \A j \in at : k <= j) + 1]>>)

\* the freshness test without Math.abs
stale_NoAbs(nowSec, timestamp) ==
    ParseInt(timestamp.v) # NaN /\ nowSec - ParseInt(timestamp.v) > FreshnessWindow

\* Math.abs(now - parseInt(timestamp)) > 300; no comparison with NaN is true
stale(nowSec, timestamp) ==
    ParseInt(timestamp.v) # NaN /\ Abs(nowSec - ParseInt(timestamp.v)) > FreshnessWindow

\* verifySlackRequest(req) with process.env.SLACK_SIGNING_SECRET and Date.now()
verifySlackRequest(req, slackSigningSecret, clock) ==
    LET slackSignature == req.signature
        timestamp == req.timestamp
        body == req.rawBody IN
    IF ~Truthy(slackSigningSecret) THEN FALSE
    ELSE IF ~Truthy(slackSignature) \/ ~Truthy(timestamp) THEN FALSE
    ELSE IF stale(clock \div 1000, timestamp) THEN FALSE
    ELSE LET sigBasestring == <<"v0:">> \o timestamp.v \o <<":">> \o TemplateText(body)
             mySignature == <<"v0=">> \o Hmac(slackSigningSecret.v[1], sigBasestring) IN
         IF ByteLength(slackSignature.v) # ByteLength(mySignature) THEN FALSE
         ELSE slackSignature.v = mySignature

\* new Date().toISOString().split('T')[0]
Today(clock) == Str(<<"2024", "-", "12", "-", "25">>)

\* x || fallback
OrElse(x, fallback) == IF Truthy(x) THEN x ELSE fallback

\* enhancementData of the Slack handler
slackData(body, clock) ==
    LET text == FormField(body, "text")
        user_id == FormField(body, "user_id")
        user_name == FormField(body, "user_name")
        channel_name == FormField(body, "channel_name") IN
    [request_id |-> Str(<<"SLACK-">> \o NumText(clock)),
     request_name |-> Str(<<"Slack Request: ">> \o
                          (IF text.v = <<LongText>> THEN <<LongTextCut, "...">>
                           ELSE text.v)),
     request_description |-> Str(Trim(text.v)),
     rationale |-> Str(<<"Submitted via Slack by ">>
                       \o OrElse(user_name, Str(<<"Unknown User">>)).v
                       \o <<" (ID: ">> \o OrElse(user_id, Str(<<"N/A">>)).v
                       \o <<") - to be enriched">>),
     requestor_name |-> OrElse(user_name, Str(<<"Slack User">>)),
     date_of_request |-> Today(clock),
     stakeholder |-> OrElse(channel_name, Null),
     type_of_request |-> Str(<<"Enhancement (Feature)">>),
     area_of_product |-> Str(<<"Buyer Portal">>),
     link_to_document |-> Null,
     desire_level |-> Str(<<"Nice-to-have">>),
     effort_level |-> Null,
     difficulty_level |-> Null,
     who_benefits |-> Str(<<"Internal">>),
     timeline |-> Null,
     status |-> Str(<<"submitted">>),
     priority_level |-> Str(<<"Medium">>)]

\* no Slack request yet; req holds at most one element, the request as it
\* arrived; kind names the message of the response
NoSlack ==
    [status |-> 0, by |-> "none", kind |-> "", requestId |-> <<>>, message |-> "",
     req |-> <<>>, insertSent |-> FALSE, updateSent |-> FALSE, id |-> 0]

\* the requests the Slack endpoint receives
SlackRequests ==
    UNION {{[raw |-> raw, contentType |-> ctype, signature |-> sig, timestamp |-> ts,
             secret |-> secret, overLimit |-> over,
             body |-> <<>>, _body |-> FALSE, rawBody |-> Undefined] :
                ctype \in ContentTypes, sig \in SignatureHeaders(ts, raw),
                secret \in {Undefined, Str(<<SigningSecret>>)},
                over \in {"none", "apiLimiter", "slackLimiter"}} :
           raw \in RawBodies, ts \in TimestampHeaders}

\* the Slack webhook for one request: the parsers, the two limiters and the whole
\* handler on table `table`, fi and fu the faults of its two store calls; gives
\* the response and the table it leaves
SlackReply(arrived, table, checkWho, id, clock, fi, fu) ==
    LET req == urlencoded(urlencoded(arrived, FALSE), TRUE)
        sent == [NoSlack EXCEPT !.req = <<arrived>>, !.by = "handler"]
        text == FormField(req.body, "text")
        ins == Insert(table, checkWho, id, slackData(req.body, clock), fi)
        requestId == FinalRequestId(id)
        upd == UpdateRequestId(table \cup {ins.data}, id, requestId, fu)
        kept(res) == [res |-> res, table |-> table, nextId |-> id]
    IN
    CASE arrived.overLimit # "none" ->
            kept([sent EXCEPT !.status = 429, !.by = arrived.overLimit])
      [] ~verifySlackRequest(req, arrived.secret, clock) ->
            kept([sent EXCEPT !.status = 401, !.kind = "Invalid request signature"])
      [] ~Truthy(text) \/ Trim(text.v) = <<>> ->
            kept([sent EXCEPT !.status = 200, !.kind = "Please provide a description"])
      [] ins.kind = "throw" ->
            kept([sent EXCEPT !.status = 200, !.kind = "An error occurred",
                              !.message = ins.message, !.insertSent = TRUE])
      [] ins.kind = "error" ->
            kept([sent EXCEPT !.status = 200,
                              !.kind = "Failed to create enhancement request",
                              !.message = ins.message, !.insertSent = TRUE])
      [] OTHER ->
            [table |-> upd.table, nextId |-> id + 1,
             res |-> IF upd.kind = "throw"
                     THEN [sent EXCEPT !.status = 200, !.kind = "An error occurred",
                                       !.message = upd.message, !.insertSent = TRUE,
                                       !.updateSent = TRUE, !.id = id]
                     ELSE [sent EXCEPT !.status = 200,
                                       !.kind = "Enhancement request created",
                                       !.requestId = <<requestId>>, !.insertSent = TRUE,
                                       !.updateSent = TRUE, !.id = id]]

\* one request of set arrivals reaches the Slack webhook
SlackFrom(arrivals) ==
    /\ slackRes = NoSlack
    /\ \E arrived \in arrivals, fi \in Faults, fu \in Faults :
        LET r == SlackReply(arrived, enhancements, whoBenefitsCheck, nextId, now, fi, fu) IN
        /\ slackRes' = r.res
        /\ enhancements' = r.table
        /\ nextId' = r.nextId
    /\ UNCHANGED <<whoBenefitsCheck, now, gate, createRes, getRes, importVars, putRes,
                   limitVars, otherVars>>

SlackRequest == SlackFrom(SlackRequests)

-----------------------------------------------------------------------------
(* PUT /api/enhancements/:id *)

\* a request body that names no field
EmptyPut ==
    [requestName |-> Undefined, requestDescription |-> Undefined, rationale |-> Undefined,
     requestorName |-> Undefined, dateOfRequest |-> Undefined, stakeholder |-> Undefined,
     typeOfRequest |-> Undefined, areaOfProduct |-> Undefined,
     linkToDocument |-> Undefined, desireLevel |-> Undefined, effortLevel |-> Undefined,
     difficultyLevel |-> Undefined, whoBenefits |-> Undefined, timeline |-> Undefined,
     status |-> Undefined, priorityLevel |-> Undefined,
     request_id |-> Undefined, requestId |-> Undefined, id |-> Undefined]

\* the request bodies of the update: changes that also name an identifier, one
\* that the store may hold, a status outside the list of the table, and a
\* required column set to null
PutBodies ==
    {[EmptyPut EXCEPT !.requestName = Str(<<"Renamed">>), !.status = Str(<<"review">>),
                      !.effortLevel = Str(<<"3.5">>),
                      !.request_id = FinalRequestId(1), !.requestId = FinalRequestId(1),
                      !.id = Num(10)],
     [EmptyPut EXCEPT !.status = Str(<<"done">>)],
     [EmptyPut EXCEPT !.requestName = Null, !.request_id = Null]}

\* the bodies that carry an effort score: the numbers 0, 3.5 and 7, the texts
\* "0" and "3.5", a text that is no number, null, and no effort at all
EffortBodies ==
    {[EmptyPut EXCEPT !.requestName = Str(<<"Renamed">>), !.effortLevel = e] :
        e \in {Num(0), Num(35), Num(70), Str(<<"0">>), Str(<<"3.5">>), Str(<<"abc">>),
                Null, Undefined}}

\* parseFloat(x) of a number or a text, in tenths
parseFloat(x) == IF x.t = "number" THEN x ELSE Num(ParseFloat(x.v))

\* updateData that also takes request_id from the body
updateData_WithRequestId(body) ==
    [request_id |-> body.request_id,
     request_name |-> body.requestName,
     request_description |-> body.requestDescription,
     rationale |-> body.rationale,
     requestor_name |-> body.requestorName,
     date_of_request |-> body.dateOfRequest,
     stakeholder |-> body.stakeholder,
     type_of_request |-> body.typeOfRequest,
     area_of_product |-> body.areaOfProduct,
     link_to_document |-> body.linkToDocument,
     desire_level |-> body.desireLevel,
     effort_level |-> IF Truthy(body.effortLevel) THEN parseFloat(body.effortLevel) ELSE Null,
     difficulty_level |-> body.difficultyLevel,
     who_benefits |-> body.whoBenefits,
     timeline |-> body.timeline,
     status |-> body.status,
     priority_level |-> body.priorityLevel]

\* updateData of the update handler, for the columns the rows of the model have
updateData(body) ==
    [request_name |-> body.requestName,
     request_description |-> body.requestDescription,
     rationale |-> body.rationale,
     requestor_name |-> body.requestorName,
     date_of_request |-> body.dateOfRequest,
     stakeholder |-> body.stakeholder,
     type_of_request |-> body.typeOfRequest,
     area_of_product |-> body.areaOfProduct,
     link_to_document |-> body.linkToDocument,
     desire_level |-> body.desireLevel,
     effort_level |-> IF Truthy(body.effortLevel) THEN parseFloat(body.effortLevel) ELSE Null,
     difficulty_level |-> body.difficultyLevel,
     who_benefits |-> body.whoBenefits,
     timeline |-> body.timeline,
     status |-> body.status,
     priority_level |-> body.priorityLevel]

\* row r with the columns of payload d that were sent: undefined keys are not
\* part of the JSON text
Updated(r, d) ==
    [c \in DOMAIN r |-> IF c \in DOMAIN d /\ d[c] # Undefined
                        THEN (IF c = "effort_level" THEN AsDecimal(d[c]) ELSE d[c])
                        ELSE r[c]]

\* the input syntax of an INTEGER column
IsInteger(param) == param # <<>> /\ \A k \in 1..Len(param) : DigitValue(param[k]) < 10

\* the value of a text that is compared with column id
IdOf(param) == ParseDigits(param, 0)

\* supabase.from('enhancements').update(d).eq('id', id).select().single(): the
\* outcome of the call under fault f
Update(table, checkWho, id, d, f) ==
    LET hit == {r \in table : IsInteger(id) /\ r.id = IdOf(id)}
        r == CHOOSE r \in hit : TRUE
        v == Violation(table, checkWho, Updated(r, d)) IN
    CASE f = "throw" -> [kind |-> "throw", message |-> "fetch failed", table |-> table]
      [] f = "error" -> [kind |-> "error", message |-> "upstream unavailable", table |-> table]
      [] ~IsInteger(id) -> [kind |-> "error", message |-> "invalid input syntax",
                           table |-> table]
      [] hit = {} -> [kind |-> "error", message |-> "PGRST116", table |-> table]
      [] v # "ok" -> [kind |-> "error", message |-> v, table |-> table]
      [] OTHER -> [kind |-> "ok", message |-> "",
                   table |-> (table \ hit) \cup {Updated(r, d)}]

\* no update request yet; req holds at most one element, the request body
NoPut == [status |-> 0, error |-> "", id |-> <<>>, req |-> <<>>]

\* req.params.id: the rows of the table, a row that does not exist, no number
PutIds == {NumText(r.id) : r \in enhancements} \cup {NumText(nextId), <<"abc">>}

\* PUT /api/enhancements/:id: the whole handler, for a body of bodies, f the
\* fault of its store call
PutFrom(bodies) ==
    /\ putRes = NoPut
    /\ \E id \in PutIds, body \in bodies, f \in Faults :
        LET upd == Update(enhancements, whoBenefitsCheck, id, updateData(body), f)
            sent == [NoPut EXCEPT !.id = id, !.req = <<body>>] IN
        /\ enhancements' = upd.table
        /\ putRes' =
             CASE upd.kind = "ok" -> [sent EXCEPT !.status = 200]
               [] upd.kind = "error" /\ upd.message = "PGRST116" ->
                     [sent EXCEPT !.status = 404, !.error = "Enhancement not found"]
               [] OTHER -> [sent EXCEPT !.status = 500, !.error = upd.message]
        /\ UNCHANGED <<nextId, whoBenefitsCheck, now, gate, createRes, getRes, importVars,
                       slackRes, limitVars, otherVars>>

Put == PutFrom(PutBodies)

\* an update that carries an effort score
PutEffort == PutFrom(EffortBodies)

-----------------------------------------------------------------------------
(* The rate limiters *)

\* the option max of the four limiters
ApiMax == 100
AuthMax == 5
MfaMax == 10
SlackMax == 50

Limiters == {"apiLimiter", "authLimiter", "mfaLimiter", "slackLimiter"}

max(m) ==
    CASE m = "apiLimiter" -> ApiMax
      [] m = "authLimiter" -> AuthMax
      [] m = "mfaLimiter" -> MfaMax
      [] m = "slackLimiter" -> SlackMax

\* req.ip, the key of the counters
Addresses == {"a", "b"}

SlackRoute == "POST /api/slack/new-request"

\* the limiters in front of the Slack webhook, in registration order
SlackChain == <<"apiLimiter", "slackLimiter">>

\* the limiters of chain from position k on count the request of address ip in
\* store: each increments the counter of the address and refuses the request when
\* the counter has passed max; a refused request reaches no later limiter
RECURSIVE Limit_Inclusive(_, _, _, _)
Limit_Inclusive(chain, k, store, ip) ==
    IF k > Len(chain) THEN [hits |-> store, over |-> "none"]
    ELSE IF chain[k] \notin Limiters THEN Limit_Inclusive(chain, k + 1, store, ip)
    ELSE LET counted == [store EXCEPT ![chain[k]][ip] = @ + 1] IN
         IF counted[chain[k]][ip] >= max(chain[k])
         THEN [hits |-> counted, over |-> chain[k]]
         ELSE Limit_Inclusive(chain, k + 1, counted, ip)

RECURSIVE Limit(_, _, _, _)
Limit(chain, k, store, ip) ==
    IF k > Len(chain) THEN [hits |-> store, over |-> "none"]
    ELSE IF chain[k] \notin Limiters THEN Limit(chain, k + 1, store, ip)
    ELSE LET counted == [store EXCEPT ![chain[k]][ip] = @ + 1] IN
         IF counted[chain[k]][ip] > max(chain[k])
         THEN [hits |-> counted, over |-> chain[k]]
         ELSE Limit(chain, k + 1, counted, ip)

\* the limiters of the chain that let a request pass that was answered by `by`
PassedBefore(chain, by) ==
    {chain[k] : k \in {h \in 1..Len(chain) :
                          /\ chain[h] \in Limiters
                          /\ \A j \in 1..h : chain[j] # by}}

\* how many requests of address ip are followed in one window of limiter m
Followed(m, ip) == IF ip = "a" THEN max(m) + MaxOver ELSE MaxOtherHits

\* a request of a signed-in user with a verified factor
SignedIn(route) ==
    [NoRequest EXCEPT !.route = route,
                      !.authorization = Str(<<"Bearer", " ", "tokA">>),
                      !.factors = <<[factor_type |-> "totp", status |-> "verified"]>>]

\* a Slack request without signature headers
UnsignedSlack ==
    [raw |-> <<>>, contentType |-> "application/x-www-form-urlencoded",
     signature |-> Undefined, timestamp |-> Undefined,
     secret |-> Str(<<SigningSecret>>), overLimit |-> "none",
     body |-> <<>>, _body |-> FALSE, rawBody |-> Undefined]

NoLimited ==
    [ip |-> "none", route |-> "none", before |-> [m \in Limiters |-> 0],
     reopened |-> {}, attempt |-> 0]

\* the addresses whose windows are followed to their end
Elapsing == {"a"}

\* a request of one address to one of the routes: the limiters of the route
\* count it, then the rest of the chain and the handler answer
LimitedRequest(routes) ==
    \E ip \in Addresses, route \in routes :
        LET chain == IF route = SlackRoute THEN SlackChain ELSE Chain(route)
            l == Limit(chain, 1, hits, ip)
            req == [SignedIn(route) EXCEPT !.overLimit = l.over]
            out == RunChain(chain, 1, req, NoOutcome)
            r == SlackReply([UnsignedSlack EXCEPT !.overLimit = l.over], enhancements,
                            whoBenefitsCheck, nextId, now, "none", "none")
            by == IF route = SlackRoute THEN r.res.by ELSE out.by
            passed == PassedBefore(chain, by)
        IN
        /\ \A k \in 1..Len(chain) :
              chain[k] \in Limiters => hits[chain[k]][ip] < Followed(chain[k], ip)
        /\ route \in MfaRoutes => attempts[ip] < AuthMax + MaxOver
        /\ hits' = l.hits
        /\ IF route = SlackRoute
           THEN /\ slackRes' = r.res
                /\ enhancements' = r.table
                /\ nextId' = r.nextId
                /\ gate' = [req |-> NoRequest, out |-> NoOutcome]
           ELSE /\ gate' = [req |-> req, out |-> out]
                /\ slackRes' = NoSlack
                /\ UNCHANGED storeVars
        /\ attempts' = IF route \in MfaRoutes THEN [attempts EXCEPT ![ip] = @ + 1]
                       ELSE attempts
        /\ admitted' = [m \in Limiters |->
                          IF m \in passed THEN [admitted[m] EXCEPT ![ip] = @ + 1]
                          ELSE admitted[m]]
        /\ refusals' = [m \in Limiters |->
                          IF m = by THEN [refusals[m] EXCEPT ![ip] = "refusing"]
                          ELSE IF m \in passed THEN [refusals[m] EXCEPT ![ip] = "none"]
                          ELSE refusals[m]]
        /\ lim' = [ip |-> ip, route |-> route,
                   before |-> [m \in Limiters |-> admitted[m][ip]],
                   reopened |-> {m \in Limiters : refusals[m][ip] = "reopened"},
                   attempt |-> IF route \in MfaRoutes THEN attempts[ip] + 1 ELSE 0]
        /\ UNCHANGED <<whoBenefitsCheck, now, createRes, getRes, importVars, putRes,
                       otherVars>>

\* the window of one address at one limiter elapses, between two requests: its
\* counter starts again
WindowElapses ==
    \E m \in Limiters, ip \in Elapsing :
        /\ hits[m][ip] > 0
        /\ hits' = [hits EXCEPT ![m][ip] = 0]
        /\ admitted' = [admitted EXCEPT ![m][ip] = 0]
        /\ refusals' = [refusals EXCEPT ![m][ip] =
                           IF @ = "refusing" THEN "reopened" ELSE @]
        /\ lim' = NoLimited
        /\ gate' = [req |-> NoRequest, out |-> NoOutcome]
        /\ slackRes' = NoSlack
        /\ UNCHANGED <<enhancements, nextId, whoBenefitsCheck, now, createRes, getRes,
                       importVars, putRes, attempts, otherVars>>

\* a quarter of an hour has passed since the first request of the address to an
\* MFA route
QuarterHourElapses ==
    \E ip \in Elapsing :
        /\ attempts[ip] > 0
        /\ attempts' = [attempts EXCEPT ![ip] = 0]
        /\ lim' = NoLimited
        /\ gate' = [req |-> NoRequest, out |-> NoOutcome]
        /\ slackRes' = NoSlack
        /\ UNCHANGED <<enhancements, nextId, whoBenefitsCheck, now, createRes, getRes,
                       importVars, putRes, hits, admitted, refusals, otherVars>>

ApiRequest == LimitedRequest({"GET /api/enhancements", SlackRoute})
MfaRequest == LimitedRequest({"POST /api/mfa/verify-enrollment"})

-----------------------------------------------------------------------------
(* enforceMfaMiddleware on its own *)

\* the factors a provider can hold
FactorKinds == [factor_type : {"totp", "phone"}, status : {"verified", "unverified"}]

\* every list of at most n factors
RECURSIVE FactorListsUpTo(_)
FactorListsUpTo(n) ==
    IF n = 0 THEN {<<>>}
    ELSE LET shorter == FactorListsUpTo(n - 1) IN
         shorter \cup {Append(s, k) : s \in shorter, k \in FactorKinds}

\* the JSON bodies of the factor listing: factors holds at most one element, the
\* list; none when the key is missing
FactorData == {[factors |-> <<>>]} \cup {[factors |-> <<l>>] : l \in FactorListsUpTo(MaxFactors)}

\* data?.factors, with the empty list the filters fall back to
factorsOf(data) == IF data.factors = <<>> THEN <<>> ELSE data.factors[1]

NoMfa == [status |-> 0, error |-> "", next |-> FALSE, data |-> <<>>, fault |-> "none"]

\* enforceMfaMiddleware runs for an authenticated request: f is what happens to
\* the factor listing call
MfaCheck ==
    /\ mfaRes = NoMfa
    /\ \E data \in FactorData, f \in Faults :
        LET req == [SignedIn("GET /api/enhancements") EXCEPT !.factors = factorsOf(data)]
            r == enforceMfaMiddleware(req, f) IN
        mfaRes' = [status |-> r.status, error |-> r.error, next |-> r.next,
                   data |-> <<data>>, fault |-> f]
    /\ UNCHANGED <<enhancements, nextId, whoBenefitsCheck, now, gate, createRes, getRes,
                   importVars, slackRes, putRes, limitVars, lastVars>>

-----------------------------------------------------------------------------
(* DELETE /api/mfa/disable and GET /api/mfa/status *)

\* what the provider does to one request that deletes a factor: it deletes it,
\* it answers with an error status, or the call fails
Deletions == {"ok", "rejected", "throw"}

\* the factor lists of the provider: at most MaxFactors factors, the k-th with
\* id k
ProviderFactors ==
    {[k \in 1..Len(l) |-> [id |-> k, factor_type |-> l[k].factor_type,
                           status |-> l[k].status]] : l \in FactorListsUpTo(MaxFactors)}

\* for (const factor of verifiedFactors) { fetch(... DELETE) }: the factors the
\* provider holds after the loop over rest, o[id] its answer to the deletion of
\* factor id, and whether a call of the loop failed
RECURSIVE Unenroll(_, _, _)
Unenroll(rest, o, held) ==
    IF rest = <<>> THEN [threw |-> FALSE, factors |-> held]
    ELSE LET factor == Head(rest)
             Others(g) == g.id # factor.id IN
         CASE o[factor.id] = "throw" -> [threw |-> TRUE, factors |-> held]
           [] o[factor.id] = "rejected" -> Unenroll(Tail(rest), o, held)
           [] OTHER -> Unenroll(Tail(rest), o, SelectSeq(held, Others))

NoDisable == [status |-> 0, success |-> FALSE, error |-> "", fault |-> "none",
              before |-> <<>>, rejected |-> FALSE]

\* the disable handler on the factors held, f the fault of the listing call and
\* o the answers to the deletions: the response and the factors held afterwards
disableMfa(held, f, o) ==
    LET verified == verifiedFactors(held)
        loop == Unenroll(verified, o, held)
        sent == [NoDisable EXCEPT !.fault = f, !.before = <<held>>] IN
    CASE f # "none" ->
            [res |-> [sent EXCEPT !.status = 500, !.error = "Failed to disable MFA"],
             factors |-> held]
      [] Len(verified) = 0 ->
            [res |-> [sent EXCEPT !.status = 400,
                                  !.error = "No MFA factors are currently enabled"],
             factors |-> held]
      [] loop.threw ->
            [res |-> [sent EXCEPT !.status = 500, !.error = "Failed to disable MFA"],
             factors |-> loop.factors]
      [] OTHER ->
            [res |-> [sent EXCEPT !.status = 200, !.success = TRUE,
                                  !.rejected = \E k \in 1..Len(verified) :
                                                   o[verified[k].id] = "rejected"],
             factors |-> loop.factors]

\* DELETE /api/mfa/disable: the whole handler
MfaDisable ==
    /\ disableRes = NoDisable
    /\ \E f \in Faults, o \in [1..MaxFactors -> Deletions] :
        LET r == disableMfa(enrolled, f, o) IN
        /\ disableRes' = r.res
        /\ enrolled' = r.factors
    /\ UNCHANGED <<enhancements, nextId, whoBenefitsCheck, now, gate, createRes, getRes,
                   importVars, slackRes, putRes, limitVars, mfaRes, creating, statusRes>>

NoStatus == [status |-> 0, mfaEnabled |-> FALSE, after |-> FALSE]

\* the status handler on the factors held, f the fault of the listing call
mfaStatus(held, f) ==
    IF f # "none" THEN [NoStatus EXCEPT !.status = 500]
    ELSE [NoStatus EXCEPT !.status = 200, !.mfaEnabled = verifiedFactors(held) # <<>>]

\* GET /api/mfa/status: the whole handler; after tells whether the disable
\* request had been answered before
MfaStatus ==
    /\ \E f \in Faults :
        statusRes' = [mfaStatus(enrolled, f) EXCEPT !.after = disableRes # NoDisable]
    /\ UNCHANGED <<enhancements, nextId, whoBenefitsCheck, now, gate, createRes, getRes,
                   importVars, slackRes, putRes, limitVars, mfaRes, creating, enrolled,
                   disableRes>>

-----------------------------------------------------------------------------
(* Two requests to POST /api/enhancements at a time *)

Creators == {"first", "second"}

NoCreate == [pc |-> "idle", clock |-> 0, id |-> 0, status |-> 0]

\* the variables a step of a create request leaves alone
createFrame == <<whoBenefitsCheck, now, gate, createRes, getRes, importVars, slackRes,
                 putRes, limitVars, mfaRes, enrolled, disableRes, statusRes>>

\* the handler of p runs up to its insert call: it has validated the body and
\* read the clock for the temporary identifier
CreateBegin(p) ==
    /\ creating[p].pc = "idle"
    /\ missingRequired(BaseBody) = {}
    /\ creating' = [creating EXCEPT ![p] = [@ EXCEPT !.pc = "insert", !.clock = now]]
    /\ UNCHANGED <<storeVars, createFrame>>

\* the store answers the insert of p, and the handler goes on to its update call
\* or answers 500
CreateInsert(p) ==
    /\ creating[p].pc = "insert"
    /\ LET ins == Insert(enhancements, whoBenefitsCheck, nextId,
                         enhancementData(BaseBody, creating[p].clock), "none") IN
       IF ins.kind = "error"
       THEN /\ creating' = [creating EXCEPT ![p] = [@ EXCEPT !.pc = "done",
                                                             !.status = 500]]
            /\ UNCHANGED storeVars
       ELSE /\ enhancements' = enhancements \cup {ins.data}
            /\ nextId' = nextId + 1
            /\ creating' = [creating EXCEPT ![p] = [@ EXCEPT !.pc = "update",
                                                             !.id = nextId]]
    /\ UNCHANGED createFrame

\* the store answers the update of p, and the handler answers 200
CreateUpdate(p) ==
    /\ creating[p].pc = "update"
    /\ LET upd == UpdateRequestId(enhancements, creating[p].id,
                                  FinalRequestId(creating[p].id), "none") IN
       enhancements' = upd.table
    /\ creating' = [creating EXCEPT ![p] = [@ EXCEPT !.pc = "done", !.status = 200]]
    /\ UNCHANGED <<nextId, createFrame>>

-----------------------------------------------------------------------------
(* The specifications *)

\* a row of the table as an earlier request left it
StoredRow(id, rid) == [AsRow(id, enhancementData(BaseBody, 0)) EXCEPT !.request_id = rid]

\* the table when the server starts: empty, holding a finalized row, or holding
\* a row whose identifier update failed
InitialStores ==
    {[table |-> {}, nextId |-> 1],
     [table |-> {StoredRow(7, tempRequestId(0))}, nextId |-> 8],
     [table |-> {StoredRow(999999, FinalRequestId(999999))}, nextId |-> 1000000]}

InitServer ==
    /\ \E s \in InitialStores : enhancements = s.table /\ nextId = s.nextId
    /\ whoBenefitsCheck \in BOOLEAN
    /\ now = 0
    /\ gate = [req |-> NoRequest, out |-> NoOutcome]
    /\ createRes = NoResponse
    /\ getRes = NoGet
    /\ importPc = "idle"
    /\ results = <<>>
    /\ i = 0
    /\ successful = 0
    /\ failed = 0
    /\ errors = <<>>
    /\ rowLog = <<>>
    /\ importRes = NoImport
    /\ slackRes = NoSlack
    /\ putRes = NoPut
    /\ hits = [m \in Limiters |-> [ip \in Addresses |-> 0]]
    /\ attempts = [ip \in Addresses |-> 0]
    /\ lim = NoLimited
    /\ mfaRes = NoMfa
    /\ admitted = [m \in Limiters |-> [ip \in Addresses |-> 0]]
    /\ refusals = [m \in Limiters |-> [ip \in Addresses |-> "none"]]
    /\ creating = [p \in Creators |-> NoCreate]
    /\ disableRes = NoDisable
    /\ statusRes = NoStatus

\* the server with a principal that has enrolled no factor
Init == InitServer /\ enrolled = <<>>

NextGate == GateRequest
NextSlack == Tick \/ SlackRequest
SpecSlack == Init /\ [][NextSlack]_vars
NextCreate == Tick \/ Create \/ GetById \/ GetAll
NextImport == ImportStart \/ ImportRow \/ ImportFinish

\* the requests that are combined to follow the identifiers: a create request,
\* a file of one row and a Slack command, each of them acceptable, and an
\* update, all within one millisecond, in any order
OneCreate == CreateFrom({BaseBody})
OneImport == ImportOf({<<BaseRow>>})
OneSlack ==
    SlackFrom({[raw |-> <<"text", "Add export">>,
                contentType |-> "application/x-www-form-urlencoded",
                signature |-> Str(SlackSign(SigningSecret, IntText(0), <<"undefined">>)),
                timestamp |-> Str(IntText(0)),
                secret |-> Str(<<SigningSecret>>), overLimit |-> "none",
                body |-> <<>>, _body |-> FALSE, rawBody |-> Undefined]})
NextIdentity == OneCreate \/ Put \/ OneImport \/ ImportRow \/ ImportFinish \/ OneSlack
InitIdentity == Init /\ whoBenefitsCheck
SpecIdentity == InitIdentity /\ [][NextIdentity]_vars
NextMfa == MfaCheck \/ Tick
NextPut == PutEffort \/ Tick
NextDisable == MfaDisable \/ MfaStatus
\* the second factor is followed on an empty table, for every list of factors
InitDisable ==
    InitServer /\ enhancements = {} /\ nextId = 1 /\ whoBenefitsCheck
    /\ enrolled \in ProviderFactors
SpecDisable == InitDisable /\ [][NextDisable]_vars
NextConcurrent ==
    \/ \E p \in Creators : CreateBegin(p)
    \/ \E p \in Creators : CreateInsert(p)
    \/ \E p \in Creators : CreateUpdate(p)
    \/ Tick
\* the two requests are followed on an empty table
InitConcurrent == Init /\ enhancements = {} /\ nextId = 1
SpecConcurrent == InitConcurrent /\ [][NextConcurrent]_vars
SpecPut == Init /\ [][NextPut]_vars
SpecMfa == Init /\ [][NextMfa]_vars
NextLimit == ApiRequest \/ WindowElapses
NextAuthLimit == MfaRequest \/ WindowElapses \/ QuarterHourElapses
\* the limiters are followed on an empty table
InitLimit == Init /\ enhancements = {} /\ nextId = 1 /\ whoBenefitsCheck
SpecLimit == InitLimit /\ [][NextLimit]_vars
SpecAuthLimit == InitLimit /\ [][NextAuthLimit]_vars
SpecGate == Init /\ [][NextGate]_vars
SpecCreate == Init /\ [][NextCreate]_vars
\* the import is followed on an empty table
InitImport == Init /\ enhancements = {} /\ nextId = 1

SpecImport == InitImport /\ [][NextImport]_vars

-----------------------------------------------------------------------------
(* The claims about the middleware chain (SpecGate) *)

\* the request has been answered or has reached its handler
Served == gate.req.route # "none"

\* the request carries a credential the provider accepts: 'Bearer <token>' with
\* the token of a session, and the verification call neither fails nor throws
ValidCredential ==
    /\ gate.req.providerFault = "none"
    /\ \E tok \in DOMAIN Sessions : gate.req.authorization = Str(<<"Bearer", " ", tok>>)

\* the principal of the request has a verified TOTP factor
HasVerifiedTotp ==
    \E k \in 1..Len(gate.req.factors) :
        gate.req.factors[k] = [factor_type |-> "totp", status |-> "verified"]

\* the header has the form 'Bearer ...'
BearerForm ==
    /\ gate.req.authorization.t = "string"
    /\ Len(gate.req.authorization.v) >= 2
    /\ SubSeq(gate.req.authorization.v, 1, 2) = <<"Bearer", " ">>

\* C1: on every data endpoint a request with a valid credential and no verified
\* TOTP factor is answered 403 MFA_REQUIRED and never reaches the handler; only a
\* valid credential with a verified TOTP factor reaches the handler.
C1_MfaRequired ==
    Served /\ gate.req.route \in DataRoutes =>
        /\ gate.out.handler => ValidCredential /\ HasVerifiedTotp
        /\ (ValidCredential /\ ~HasVerifiedTotp /\ gate.req.overLimit = "none") =>
              gate.out.status = 403 /\ gate.out.error = "MFA_REQUIRED"

\* C2: the handler runs only for a 'Bearer <token>' header whose token the
\* provider verified, with the verified user attached; a missing or non-Bearer
\* header is answered 401 (when no rate limiter answered first) and the provider
\* is not called.
C2_AuthGate ==
    Served =>
        /\ gate.out.handler =>
              /\ ValidCredential
              /\ gate.out.providerCalled
              /\ \E tok \in DOMAIN Sessions :
                    /\ gate.req.authorization = Str(<<"Bearer", " ", tok>>)
                    /\ gate.out.user = Sessions[tok]
        /\ ~BearerForm =>
              /\ ~gate.out.providerCalled
              /\ ~gate.out.handler
              /\ gate.req.overLimit = "none" =>
                    gate.out.status = 401 /\ gate.out.by = "authMiddleware"

\* a handler runs for the session of userB
C2_Witness ==
    /\ gate.out.handler /\ gate.out.user = "userB"
    /\ gate.req.route = "DELETE /api/enhancements/:id"

\* C3 as claimed: every failure of the credential check ends the request with
\* 401, and the credential check produces no other status.
C3_Always401 ==
    Served /\ gate.out.by = "authMiddleware" => gate.out.status = 401

\* C3 as amended: a request that no rate limiter answered and whose credential
\* is not valid is answered by the credential check and never reaches the
\* handler; the answer is 500 when the provider's verification call throws and
\* 401 in every other case.
C3_CredentialFailure ==
    /\ (Served /\ gate.req.overLimit = "none" /\ ~ValidCredential) =>
          gate.out.by = "authMiddleware" /\ ~gate.out.handler
    /\ (Served /\ gate.out.by = "authMiddleware") =>
          /\ ~ValidCredential
          /\ gate.out.status =
                (IF BearerForm /\ gate.req.providerFault = "throw" THEN 500 ELSE 401)

\* the verification call throws for a well-formed header
C3_Witness ==
    /\ gate.out.by = "authMiddleware" /\ gate.out.status = 500
    /\ gate.req.authorization = Str(<<"Bearer", " ", "tokA">>)
    /\ gate.req.providerFault = "throw"

\* C16: an upload of another MIME type than text/csv or of more than 5 MiB, sent
\* with a valid credential, is answered 400 and never reaches the import
\* handler.
C16_MalformedUpload ==
    (Served /\ gate.req.route = "POST /api/enhancements/import-csv"
        /\ gate.req.file \in {"wrongType", "tooLarge"}
        /\ ValidCredential /\ gate.req.overLimit = "none") =>
        gate.out.status = 400 /\ ~gate.out.handler

-----------------------------------------------------------------------------
(* The vocabulary of the claims about who-benefits values, rows and records *)

AllowedWhoBenefits == {"Clients - procurement", "Clients - end users", "Suppliers", "Internal"}

\* the positions of the commas of a text, in order
CommaPositions(s) ==
    LET IsComma(k) == s[k] = "," IN SelectSeq([k \in 1..Len(s) |-> k], IsComma)

\* the text strictly between positions a and b without the spaces around it
Segment(s, a, b) ==
    LET inked == {k \in (a + 1)..(b - 1) : s[k] # " "} IN
    IF inked = {} THEN <<>>
    ELSE SubSeq(s, CHOOSE k \in inked : \A j \in inked : k <= j,
                   CHOOSE k \in inked : \A j \in inked : j <= k)

\* the comma-separated segments of a text, spaces around each removed
Segments(s) ==
    LET cuts == <<0>> \o CommaPositions(s) \o <<Len(s) + 1>> IN
    [k \in 1..(Len(cuts) - 1) |-> Segment(s, cuts[k], cuts[k + 1])]

\* the tokens of a who-benefits text: its non-empty segments
Tokens(s) == LET NonEmpty(x) == x # <<>> IN SelectSeq(Segments(s), NonEmpty)

\* a token that is not one of the allowed values
BadToken(x) == ~(Len(x) = 1 /\ x[1] \in AllowedWhoBenefits)

\* an allowed value, then any number of: a comma, optional spaces, an allowed value
WhitelistForm(s) ==
    /\ s # <<>>
    /\ \A k \in 1..Len(s) :
          \/ s[k] \in AllowedWhoBenefits /\ (k > 1 => s[k - 1] \in {",", " "})
          \/ s[k] = "," /\ k > 1 /\ k < Len(s) /\ s[k - 1] \in AllowedWhoBenefits
          \/ s[k] = " " /\ k > 1 /\ k < Len(s) /\ s[k - 1] \in {",", " "}
                        /\ s[k + 1] # ","

\* the tables the server can start with
InitialTables == {s.table : s \in InitialStores}

\* the create request differs from the accepted body in field f alone (or in
\* nothing)
OnlyFieldVaries(f) ==
    /\ createRes.req # <<>>
    /\ createRes.req[1] = [BaseBody EXCEPT ![f] = createRes.req[1][f]]

-----------------------------------------------------------------------------
(* The claims about the CSV import (SpecImport) *)

\* the import ran its loop to the end and answered
ImportDone == importPc = "done" /\ results # <<>>

\* a cell that is absent or holds only spaces
EmptyCell(x) == x.t # "string" \/ \A k \in 1..Len(x.v) : x.v[k] = " "

\* the text of a cell without the spaces around it and without one layer of
\* double quotes around that
CellText(x) ==
    LET s == Segment(x.v, 0, Len(x.v) + 1) IN
    IF Len(s) >= 2 /\ s[1] = "\"" /\ s[Len(s)] = "\"" THEN SubSeq(s, 2, Len(s) - 1) ELSE s

\* the allowed values of the single-valued enum columns
AllowedCell ==
    "Type of Request" :> {"Bug Fix", "New Feature", "Enhancement (UI)", "Enhancement (Feature)"} @@
    "Area of Product" :> {"Buyer Portal", "Supplier Hub", "Procurement", "Guides", "Documentation"} @@
    "Desire Level" :> {"Must-have", "Nice-to-have"} @@
    "Difficulty Level" :> {"Simple", "Complex", "Involved"} @@
    "Priority Level" :> {"Critical", "High", "Medium", "Low"}

\* the effort texts that are numbers >= 0
GoodEffortTexts == {<<"0">>, <<"3.5">>, <<"7">>}

\* the row violates validation: a required cell is empty, an enum cell holds a
\* value outside its set, the who-benefits cell holds a token outside the
\* whitelist, or the effort cell holds something that is no number >= 0
RowViolates(row) ==
    \/ \E c \in {"Request Name", "Request Description", "Requestor Name",
                 "Date of Request (DD-MM-YYYY)", "Type of Request", "Area of Product",
                 "Desire Level", "Who Benefits"} : EmptyCell(row[c])
    \/ \E c \in DOMAIN AllowedCell :
          ~EmptyCell(row[c]) /\ Segment(row[c].v, 0, Len(row[c].v) + 1) \notin
                                   {<<a>> : a \in AllowedCell[c]}
    \/ \E k \in DOMAIN Tokens(CellText(row["Who Benefits"])) :
          BadToken(Tokens(CellText(row["Who Benefits"]))[k])
    \/ /\ ~EmptyCell(row["Effort Level"])
       /\ Segment(row["Effort Level"].v, 0, Len(row["Effort Level"].v) + 1)
             \notin GoodEffortTexts

\* C4 as claimed: a store call that returns an error or throws on one row never ends the
\* import: every row of the file is still validated and, when it passes, sent
\* to the store, the request ends with 200 and the summary, and the failing row
\* is counted failed and listed with the message of the store.
C4_StoreMessageListed ==
    ImportDone =>
        /\ importRes.status = 200
        /\ i = Len(results) /\ Len(rowLog) = Len(results)
        /\ importRes.total = Len(results)
        /\ importRes.successful + importRes.failed = Len(results)
        /\ importRes.failed = Len(errors)
        /\ \A k \in 1..Len(results) :
              /\ rowLog[k].validated <=> ~RowViolates(results[k])
              /\ rowLog[k].validated => rowLog[k].insert \in {"ok", "error", "throw"}
              /\ rowLog[k].insert = "ok" => \E r \in enhancements : r.id = rowLog[k].id
              /\ rowLog[k].insert \in {"error", "throw"} =>
                    \E j \in 1..Len(importRes.errors) :
                        /\ importRes.errors[j].row = k
                        /\ importRes.errors[j].kind \in {"database", "exception"}
                        /\ importRes.errors[j].message = rowLog[k].message
                        /\ importRes.errors[j].message # ""

\* C4 as amended: a store call that returns an error or throws on one row never
\* ends the import: every row of the file is still validated and, when it
\* passes, sent to the store, the request ends with 200 and the summary, and the
\* failing row is counted failed and recorded with the message of the store; the
\* response lists that entry when fewer than 50 errors precede it.
C4_NeverAbortsEarly ==
    ImportDone =>
        /\ importRes.status = 200
        /\ i = Len(results) /\ Len(rowLog) = Len(results)
        /\ importRes.total = Len(results)
        /\ importRes.successful + importRes.failed = Len(results)
        /\ importRes.failed = Len(errors)
        /\ \A k \in 1..Len(results) :
              /\ rowLog[k].validated <=> ~RowViolates(results[k])
              /\ rowLog[k].validated => rowLog[k].insert \in {"ok", "error", "throw"}
              /\ rowLog[k].insert = "ok" => \E r \in enhancements : r.id = rowLog[k].id
              /\ rowLog[k].insert \in {"error", "throw"} =>
                    \E j \in 1..Len(errors) :
                        /\ errors[j].row = k
                        /\ errors[j].kind \in {"database", "exception"}
                        /\ errors[j].message = rowLog[k].message
                        /\ errors[j].message # ""
                        /\ j <= ErrorCap =>
                              j <= Len(importRes.errors) /\ importRes.errors[j] = errors[j]

\* rows 1 and 2 fail in the store, by a throw and by an error, row 3 is inserted
C4_Witness ==
    /\ ImportDone /\ Len(results) = 3
    /\ rowLog[1].insert = "throw" /\ rowLog[2].insert = "error"
    /\ rowLog[3].insert = "ok" /\ importRes.successful = 1 /\ importRes.failed = 2

\* no call of the store failed a row: every insert was accepted and no
\* follow-up update threw
StoreAccepts ==
    \A k \in 1..Len(rowLog) :
        rowLog[k].insert \in {"none", "ok"} /\ rowLog[k].update # "throw"

\* the rows of the file that violate validation
F == {k \in 1..Len(results) : RowViolates(results[k])}

FailedRows ==
    {k \in 1..Len(rowLog) :
        \/ RowViolates(results[k])
        \/ rowLog[k].insert \in {"error", "throw"}
        \/ rowLog[k].update = "throw"}

\* C17: the error list of an import response holds the errors of the first
\* min(50, failed) failed rows, in row order, and failed counts every failed
\* row.
C17_ErrorCap ==
    ImportDone =>
        LET shown == IF importRes.failed < ErrorCap THEN importRes.failed ELSE ErrorCap IN
        /\ importRes.failed = Cardinality(FailedRows)
        /\ Len(importRes.errors) = shown
        /\ \A j \in 1..shown :
              /\ importRes.errors[j] = errors[j]
              /\ importRes.errors[j].row \in FailedRows
              /\ Cardinality({k \in FailedRows : k < importRes.errors[j].row}) = j - 1

\* 52 failed rows, 50 of them listed
C17_Witness ==
    /\ ImportDone /\ importRes.failed = ErrorCap + 2
    /\ Len(importRes.errors) = ErrorCap
    /\ importRes.errors[ErrorCap].row = ErrorCap

\* the required headers of the row that are absent or blank
MissingHeaders(row) ==
    {c \in {"Request Name", "Request Description", "Requestor Name",
             "Date of Request (DD-MM-YYYY)", "Type of Request", "Area of Product",
             "Desire Level", "Who Benefits"} : EmptyCell(row[c])}

\* the entries of the handler's error list for row k
EntriesOf(k) == {j \in 1..Len(errors) : errors[j].row = k}

\* C22: a row that fails a validation step is never inserted, and validation is
\* ordered: a row with a missing or blank required header gets one 'Missing
\* required fields' entry that lists exactly the offending headers and no enum
\* or effort error; only the other rows get enum and effort errors.
C22_ValidationOrder ==
    \A k \in 1..Len(rowLog) :
        LET row == results[k] IN
        /\ RowViolates(row) =>
              /\ ~rowLog[k].validated /\ rowLog[k].insert = "none" /\ rowLog[k].id = 0
              /\ Cardinality(EntriesOf(k)) = 1
        /\ \A j \in EntriesOf(k) :
              /\ MissingHeaders(row) # {} =>
                    /\ errors[j].kind = "missing"
                    /\ {errors[j].fields[h] : h \in 1..Len(errors[j].fields)} =
                          MissingHeaders(row)
                    /\ Len(errors[j].fields) = Cardinality(MissingHeaders(row))
                    /\ errors[j].validation = <<>>
              /\ errors[j].kind = "validation" =>
                    MissingHeaders(row) = {} /\ errors[j].validation # <<>>
              /\ errors[j].kind = "missing" => MissingHeaders(row) # {}

\* a row without its name, with a type outside the list and an effort that is
\* no number, was processed: one entry, naming the header
C22_Witness ==
    /\ Len(rowLog) >= 1
    /\ results[1]["Request Name"] = Str(<<" ">>)
    /\ results[1]["Type of Request"] = Str(<<"Feature">>)
    /\ results[1]["Effort Level"] = Str(<<"abc">>)
    /\ Len(errors) = 1 /\ errors[1].fields = <<"Request Name">>
    /\ enhancements = {}

-----------------------------------------------------------------------------
(* The claims about record creation (SpecCreate) *)

\* the records that a create request or an import added to the table
Added == {r \in enhancements : \A T \in InitialTables : \A q \in T : q.id # r.id}

\* C6: the who_benefits value of every record stored through the create
\* endpoint or the CSV import has the whitelist form; a value such as ',' or one
\* with spaces around it is never stored as given.
C6_StoredWhoBenefits ==
    \A r \in Added : r.who_benefits.t = "string" /\ WhitelistForm(r.who_benefits.v)

\* the who-benefits text of the create request
Given == createRes.req[1].whoBenefits.v

\* C7: with every other field valid, a who-benefits text whose tokens are all
\* allowed reaches the insert step; a text with a token outside the whitelist is
\* answered 400 with exactly the invalid tokens, in order, and no record is
\* inserted.
C7_WhoBenefitsValidation ==
    (createRes.status # 0 /\ OnlyFieldVaries("whoBenefits")
        /\ createRes.req[1].whoBenefits.t = "string") =>
        LET invalid == SelectSeq(Tokens(Given), BadToken) IN
        /\ (Tokens(Given) # <<>> /\ invalid = <<>>) => createRes.insertSent
        /\ invalid # <<>> =>
              /\ createRes.status = 400
              /\ createRes.error = "Invalid Who Benefits values"
              /\ createRes.invalid = invalid
              /\ ~createRes.insertSent
              /\ enhancements \in InitialTables

\* an allowed and a foreign token: the foreign one alone is named
C7_Witness ==
    /\ createRes.status = 400
    /\ createRes.req # <<>>
    /\ createRes.req[1].whoBenefits = Str(<<"Suppliers", ",", "Admins">>)
    /\ createRes.invalid = <<<<"Admins">>>>

\* an enum field of the create request holds a value outside its set
EnumOutside ==
    \E f \in {"typeOfRequest", "areaOfProduct", "desireLevel", "difficultyLevel",
              "priorityLevel"} :
        LET x == createRes.req[1][f]
            allowed == CASE f = "typeOfRequest" -> AllowedCell["Type of Request"]
                         [] f = "areaOfProduct" -> AllowedCell["Area of Product"]
                         [] f = "desireLevel" -> AllowedCell["Desire Level"]
                         [] f = "difficultyLevel" -> AllowedCell["Difficulty Level"]
                         [] OTHER -> AllowedCell["Priority Level"] IN
        x.t = "string" /\ x.v # <<>> /\ x.v \notin {<<a>> : a \in allowed}

\* a required field of the create request is missing
RequiredMissing ==
    \E f \in {"requestName", "requestDescription", "requestorName", "dateOfRequest",
              "typeOfRequest", "areaOfProduct", "desireLevel", "whoBenefits"} :
        createRes.req[1][f] \in {Undefined, Null, Str(<<>>)}

\* C8: a create request with an enum field outside its set, or with a required
\* field missing, is answered 400 and no insert is sent to the store.
C8_EnumsAtRequestTime ==
    (createRes.status # 0 /\ (EnumOutside \/ RequiredMissing)) =>
        createRes.status = 400 /\ ~createRes.insertSent

\* the effort of the create request is negative or no number
EffortRejectable ==
    LET x == createRes.req[1].effortLevel IN
    \/ x.t = "number" /\ x.n < 0
    \/ x.t = "string" /\ x.v # <<>> /\ x.v \notin GoodEffortTexts

\* C9: on both input paths an effort that is negative or no number is rejected
\* by validation, with 400 on the create path and as a failed row that never
\* reaches the store on the import path; 0, a positive number and an absent
\* effort are accepted.
C9_EffortValidation ==
    /\ (createRes.status # 0 /\ OnlyFieldVaries("effortLevel")) =>
          IF EffortRejectable
          THEN createRes.status = 400 /\ ~createRes.insertSent
          ELSE createRes.insertSent
    /\ \A k \in 1..Len(rowLog) :
          (results[k] = [BaseRow EXCEPT !["Effort Level"] = results[k]["Effort Level"]]) =>
              (rowLog[k].validated <=>
                  \/ EmptyCell(results[k]["Effort Level"])
                  \/ Segment(results[k]["Effort Level"].v, 0,
                             Len(results[k]["Effort Level"].v) + 1) \in GoodEffortTexts)

\* REQ- and the key, left-padded with zeros to six digits
DerivedId(id) ==
    LET digits == NumText(id) IN
    Str(<<"REQ-">> \o [k \in 1..(6 - Len(digits)) |-> "0"] \o digits)

\* C10: the identifier of a 200 create response is REQ- followed by the key
\* padded to six digits, and every later fetch of that record returns the same
\* identifier, also when the identifier update reported an error.
C10_ReadAfterWrite ==
    createRes.status = 200 =>
        /\ createRes.body[1].request_id = DerivedId(createRes.body[1].id)
        /\ getRes.status = 200 =>
              \A k \in 1..Len(getRes.body) :
                  getRes.body[k].id = createRes.body[1].id =>
                      /\ "requestId" \in DOMAIN getRes.body[k]
                      /\ getRes.body[k].requestId = createRes.body[1].request_id

\* a text of the form DD-MM-YYYY, and one of the form YYYY-MM-DD
DayMonthYear(d) ==
    /\ Len(d) = 5 /\ d[2] = "-" /\ d[4] = "-"
    /\ SymLen(d[1]) = 2 /\ SymLen(d[3]) = 2 /\ SymLen(d[5]) = 4

YearMonthDay(d) ==
    /\ Len(d) = 5 /\ d[2] = "-" /\ d[4] = "-"
    /\ SymLen(d[1]) = 4 /\ SymLen(d[3]) = 2 /\ SymLen(d[5]) = 2

\* C18: the create operation turns a request date DD-MM-YYYY into YYYY-MM-DD and
\* leaves a date YYYY-MM-DD unchanged; the normalized date is what the created
\* record holds, and normalizing it again yields the same date.
C18_DateNormalization ==
    (createRes.req # <<>> /\ createRes.req[1].dateOfRequest.t = "string") =>
        LET d == createRes.req[1].dateOfRequest
            n == formattedDate(d) IN
        /\ DayMonthYear(d.v) => n = Str(<<d.v[5], "-", d.v[3], "-", d.v[1]>>)
        /\ YearMonthDay(d.v) => n = d
        /\ (DayMonthYear(d.v) \/ YearMonthDay(d.v)) => formattedDate(n) = n
        /\ createRes.status = 200 => createRes.body[1].date_of_request = n

\* 25-12-2024 was stored as 2024-12-25
C18_Witness ==
    /\ createRes.status = 200
    /\ createRes.req[1].dateOfRequest = Str(<<"25", "-", "12", "-", "2024">>)
    /\ createRes.body[1].date_of_request = Str(<<"2024", "-", "12", "-", "25">>)

-----------------------------------------------------------------------------
(* The claims about the second factor (SpecMfa) *)

\* the middleware has run
MfaRan == mfaRes.data # <<>>

\* the list the provider gave holds a factor of type TOTP in status verified
ListsVerifiedTotp ==
    /\ mfaRes.data[1].factors # <<>>
    /\ \E k \in 1..Len(mfaRes.data[1].factors[1]) :
          /\ mfaRes.data[1].factors[1][k].factor_type = "totp"
          /\ mfaRes.data[1].factors[1][k].status = "verified"

\* C21: the second-factor check lets the request proceed exactly when the factor
\* list of the provider holds a factor that is TOTP and verified; with an empty
\* or missing list, or with none such, it answers 403 MFA_REQUIRED; when the
\* provider call fails or throws it answers 500 and the request does not proceed.
C21_SecondFactor ==
    MfaRan =>
        /\ mfaRes.next <=> (mfaRes.fault = "none" /\ ListsVerifiedTotp)
        /\ mfaRes.next => mfaRes.status = 0
        /\ (mfaRes.fault = "none" /\ ~ListsVerifiedTotp) =>
              mfaRes.status = 403 /\ mfaRes.error = "MFA_REQUIRED"
        /\ mfaRes.fault # "none" => mfaRes.status = 500

\* a verified phone factor beside an unverified TOTP factor: 403
C21_Witness ==
    /\ MfaRan /\ mfaRes.fault = "none" /\ mfaRes.status = 403
    /\ mfaRes.data[1].factors =
          <<(<<[factor_type |-> "phone", status |-> "verified"],
               [factor_type |-> "totp", status |-> "unverified"]>>)>>

-----------------------------------------------------------------------------
(* The claims about the identifiers (SpecIdentity) *)

\* the identifier of row r is the final one, derived from its id
Finalized(r) == r.request_id = FinalRequestId(r.id)

\* no two rows of the table share an identifier
UniqueIdentifiers ==
    \A r \in enhancements, q \in enhancements :
        (r.id # q.id /\ r.request_id # Null) => r.request_id # q.request_id

\* a row with a final identifier is still there after the step, with the same
\* identifier
IdentifiersKept ==
    \A r \in enhancements :
        Finalized(r) =>
            \E q \in enhancements' : q.id = r.id /\ q.request_id = r.request_id

\* C11: once the identifier of a record is finalized to REQ-NNNNNN, no create,
\* update, import or Slack operation changes it (an update leaves it alone
\* whatever the body holds), and no two records ever share an identifier.
C11_IdentifierImmutable == [](UniqueIdentifiers) /\ [][IdentifiersKept]_vars

\* an update that names another identifier in its body was applied to a record
\* with a final identifier
C11_Witness ==
    /\ putRes.status = 200
    /\ putRes.req[1].request_id \notin {Undefined, Null}
    /\ \E r \in enhancements :
          /\ r.id = IdOf(putRes.id) /\ Finalized(r)
          /\ r.request_id # putRes.req[1].request_id
          /\ r.request_name = Str(<<"Renamed">>)
    /\ Cardinality(enhancements) > 1

-----------------------------------------------------------------------------
(* The claims about the rate limiters (SpecLimit, SpecAuthLimit) *)

\* a request has just been counted by the limiters
Limited == lim # NoLimited

\* who answered that request
AnsweredBy == IF lim.route = SlackRoute THEN slackRes.by ELSE gate.out.by

AnsweredStatus == IF lim.route = SlackRoute THEN slackRes.status ELSE gate.out.status

\* the request reached neither authentication nor a handler, and no store call
\* was made for it
StoppedAtLimiter ==
    IF lim.route = SlackRoute
    THEN slackRes.by # "handler" /\ ~slackRes.insertSent /\ slackRes.kind = ""
    ELSE ~gate.out.handler /\ ~gate.out.providerCalled /\ gate.out.user = "none"

\* C19: rate limiting is a fixed-window counter per client address: in one
\* window at most 100 requests under /api/ and at most 50 requests to the Slack
\* endpoint of one address pass the limiter, every further request of the window
\* is answered 429 without reaching authentication or the handler, and after the
\* window has elapsed requests are admitted again.
C19_FixedWindow ==
    /\ \A ip \in Addresses :
          /\ admitted["apiLimiter"][ip] <= ApiMax
          /\ admitted["slackLimiter"][ip] <= SlackMax
    /\ Limited =>
          /\ AnsweredBy = "apiLimiter" <=> lim.before["apiLimiter"] = ApiMax
          /\ AnsweredBy = "slackLimiter" <=>
                /\ lim.route = SlackRoute
                /\ lim.before["apiLimiter"] < ApiMax
                /\ lim.before["slackLimiter"] = SlackMax
          /\ AnsweredBy \in Limiters => AnsweredStatus = 429 /\ StoppedAtLimiter
          /\ AnsweredBy \notin Limiters =>
                /\ AnsweredStatus # 429
                /\ lim.route # SlackRoute => gate.out.providerCalled /\ gate.out.handler
                /\ lim.route = SlackRoute => slackRes.by = "handler"
          /\ AnsweredBy \notin lim.reopened

\* the address was refused by the general limiter when its window was used up,
\* the window elapsed, and its next request is served
C19_Witness ==
    /\ Limited /\ lim.ip = "a" /\ lim.route = "GET /api/enhancements"
    /\ "apiLimiter" \in lim.reopened
    /\ gate.out.handler /\ gate.out.status # 429

\* C20: authentication-sensitive endpoints are limited by their own tier to 5
\* attempts per client address per 15-minute window: the 6th attempt of one
\* address within the window is answered 429.
C20_AuthTier ==
    (Limited /\ lim.route \in MfaRoutes /\ lim.attempt > AuthMax) =>
        AnsweredStatus = 429

-----------------------------------------------------------------------------
(* The claims about the Slack webhook (SpecSlack) *)

\* the Slack request that was answered
Arrived == slackRes.req[1]

\* the request passed verification: the handler went on past it
SlackVerified ==
    slackRes.req # <<>> /\ slackRes.by = "handler" /\ slackRes.status # 401

\* the signature header was computed with the shared secret and the timestamp
\* of the request over raw body raw
SignedOver(raw) ==
    /\ Arrived.signature.t = "string" /\ Arrived.timestamp.t = "string"
    /\ Arrived.signature.v = SlackSign(SigningSecret, Arrived.timestamp.v, raw)

\* the seconds between the timestamp header and now; 0 when it is no number
Age ==
    IF Arrived.timestamp.t = "string" /\ ParseInt(Arrived.timestamp.v) # NaN
    THEN Abs((now \div 1000) - ParseInt(Arrived.timestamp.v))
    ELSE 0

\* no record was added to the table
NothingStored == enhancements \in InitialTables

\* C12: a request whose signature was computed with the shared secret over a
\* body other than the one delivered is rejected and creates no record.
C12_SignatureBindsBody ==
    (slackRes.req # <<>> /\ ~SignedOver(Arrived.raw)
        /\ \E other \in RawBodies : SignedOver(other)) =>
        ~SlackVerified /\ ~slackRes.insertSent /\ NothingStored

\* the request is one that Slack sends for a command with a text: urlencoded,
\* signed over the body as sent, fresh, no limiter in the way, the secret
\* configured
GenuineRequest ==
    /\ slackRes.req # <<>>
    /\ Arrived.contentType = "application/x-www-form-urlencoded"
    /\ SignedOver(Arrived.raw)
    /\ ParseInt(Arrived.timestamp.v) # NaN /\ Age <= FreshnessWindow
    /\ Arrived.secret = Str(<<SigningSecret>>)
    /\ Arrived.overLimit = "none"
    /\ \E k \in 1..(Len(Arrived.raw) - 1) :
          Arrived.raw[k] = "text" /\ Arrived.raw[k + 1] # " "

\* C13: a fresh request with a text, signed with the secret over the raw body
\* as sent, passes verification, has its record inserted and its identifier
\* finalized, and is answered 200 naming the final identifier.
C13_GenuineAccepted ==
    GenuineRequest =>
        /\ SlackVerified /\ slackRes.status = 200
        /\ slackRes.insertSent
        /\ (slackRes.kind = "Enhancement request created" =>
               /\ slackRes.requestId = <<DerivedId(slackRes.id)>>
               /\ \E r \in enhancements :
                     /\ r.id = slackRes.id
                     /\ r.status = Str(<<"submitted">>)
                     /\ r.priority_level = Str(<<"Medium">>))

\* the signature the server computes for the request
ServerSignature ==
    <<"v0=">> \o Hmac(SigningSecret,
                      <<"v0:">> \o Arrived.timestamp.v \o <<":">> \o
                      TemplateText(urlencoded(urlencoded(Arrived, FALSE), TRUE).rawBody))

\* C14: a request whose timestamp lies more than 300 seconds before or after
\* now is rejected and creates no record, whatever its signature; at exactly
\* 300 seconds a request carrying the signature the server computes is verified.
C14_Freshness ==
    slackRes.req # <<>> =>
        /\ Age > FreshnessWindow =>
              ~SlackVerified /\ ~slackRes.insertSent /\ NothingStored
        /\ (Age = FreshnessWindow /\ Arrived.overLimit = "none"
               /\ Arrived.secret = Str(<<SigningSecret>>)
               /\ Arrived.signature = Str(ServerSignature)) => SlackVerified

\* a request with the signature the server computes and a timestamp 301 seconds
\* in the future is rejected
C14_Witness ==
    /\ slackRes.req # <<>> /\ Arrived.overLimit = "none"
    /\ Arrived.secret = Str(<<SigningSecret>>)
    /\ Arrived.signature = Str(ServerSignature)
    /\ Arrived.timestamp = Str(IntText(FreshnessWindow + 1))
    /\ slackRes.status = 401 /\ slackRes.by = "handler"

\* C15: every answer of the Slack handler, in particular the one to a request
\* that fails verification, has status 200.
C15_Always200 == (slackRes.status # 0 /\ slackRes.by = "handler") => slackRes.status = 200

-----------------------------------------------------------------------------
(* The claims about the records of an import (SpecImport) *)

\* a temporary identifier: TEMP- or SLACK- followed by the clock
IsPlaceholder(x) ==
    x # Null /\ x.t = "string" /\ Len(x.v) >= 1 /\ x.v[1] \in {"TEMP-", "SLACK-"}

\* C23: in every reachable state, also after the identifier update of a stored
\* row has failed, every stored record carries a temporary placeholder
\* identifier or its final REQ-NNNNNN identifier, never an absent one.
C23_IdentifierPresent ==
    \A r \in enhancements : IsPlaceholder(r.request_id) \/ Finalized(r)

\* the record that row k of the file left in the table
RecordsOf(k) == {r \in enhancements : rowLog[k].insert = "ok" /\ r.id = rowLog[k].id}

\* the rows of the file, so far, that were inserted
InsertedRows == {k \in 1..Len(rowLog) : rowLog[k].insert = "ok"}

\* day-month-year turned into year-month-day
Reordered(s) ==
    LET parts == Split(s, "-") IN
    Str(parts[3] \o <<"-">> \o parts[2] \o <<"-">> \o parts[1])

\* the due date to be stored for a cell: absent for a blank cell, reordered for
\* a hyphen-delimited value whose leading segment has two digits, and else the
\* value as it is
ExpectedTimeline(cell) ==
    IF EmptyCell(cell) THEN Null
    ELSE LET s == Trim(cell.v)
             parts == Split(s, "-") IN
         IF Len(parts) = 3 /\ parts[1] # <<>> /\ SymLen(parts[1]) = 2
         THEN Reordered(s) ELSE Str(s)

\* C24: the import stores the required date, given as DD-MM-YYYY, as
\* YYYY-MM-DD; it reorders the optional due date only when the value is
\* hyphen-delimited with a leading segment of two digits, and stores any other
\* non-blank value, such as one already in YYYY-MM-DD, unchanged.
C24_DateTranslation ==
    \A k \in 1..Len(rowLog) :
        LET row == results[k] IN
        /\ \A r \in RecordsOf(k) :
              /\ r.date_of_request = Reordered(Trim(row["Date of Request (DD-MM-YYYY)"].v))
              /\ r.timeline = ExpectedTimeline(row["Due Date"])
        /\ (rowLog[k].validated /\ ~EmptyCell(row["Due Date"])
               /\ IsDate(Trim(row["Due Date"].v))) => rowLog[k].message # "invalid_date"

\* the column of a record is absent
Absent(r, c) == r[c] = Null

\* C25: in every record the import inserted, an optional column (benefactor,
\* link, difficulty, effort, due date) whose cell was blank or only white space
\* is absent and never the empty string, a blank rationale is 'Not specified',
\* a blank priority is 'Medium', the status is 'submitted', and difficulty and
\* priority are absent, defaulted or in their lists.
C25_OptionalColumns ==
    \A k \in InsertedRows : \A r \in RecordsOf(k) :
        LET row == results[k] IN
        /\ EmptyCell(row["Benefactor"]) => Absent(r, "stakeholder")
        /\ EmptyCell(row["Link to Document"]) => Absent(r, "link_to_document")
        /\ EmptyCell(row["Difficulty Level"]) => Absent(r, "difficulty_level")
        /\ EmptyCell(row["Effort Level"]) => Absent(r, "effort_level")
        /\ EmptyCell(row["Due Date"]) => Absent(r, "timeline")
        /\ \A c \in {"stakeholder", "link_to_document", "difficulty_level", "timeline"} :
              r[c] # Str(<<>>)
        /\ EmptyCell(row["Rationale"]) => r.rationale = Str(<<"Not specified">>)
        /\ EmptyCell(row["Priority Level"]) => r.priority_level = Str(<<"Medium">>)
        /\ r.status = Str(<<"submitted">>)
        /\ CheckIn(r.difficulty_level, validDifficultyLevel)
        /\ CheckIn(r.priority_level, validPriorityLevel)

\* C27: the summary agrees with the store: every row counted as failed left no
\* record and every row counted as successful left exactly one, so the import
\* added as many records as it counts successful, also when the identifier
\* update after an insert fails or throws.
C27_SummaryAgreesWithStore ==
    importPc \in {"loop", "done"} =>
        /\ Cardinality(enhancements) = successful
        /\ importRes.status = 200 => Cardinality(enhancements) = importRes.successful

\* C28: at every point of the row loop the rows counted successful and failed
\* add up to the rows processed, and in the response they add up to the total,
\* which is the number of rows parsed.
C28_CountsAddUp ==
    /\ importPc \in {"loop", "done"} =>
          /\ successful + failed = i
          /\ i = Len(rowLog) /\ i <= Len(results)
    /\ importRes.status = 200 =>
          /\ importRes.successful + importRes.failed = importRes.total
          /\ importRes.total = Len(results)

\* a file of three rows, one of them inserted and one refused, was answered
C28_Witness ==
    /\ importRes.status = 200 /\ importRes.total = MaxRows
    /\ importRes.successful >= 1 /\ importRes.failed >= 1
    /\ Cardinality(enhancements) >= 1

-----------------------------------------------------------------------------
(* The claim about the effort score of an update (SpecPut) *)

\* the row the answered update named
PutRow == {r \in enhancements : IsInteger(putRes.id) /\ r.id = IdOf(putRes.id)}

\* the effort score the body of the answered update gave, in tenths
GivenEffort ==
    LET e == putRes.req[1].effortLevel IN
    IF e.t = "number" THEN e.n ELSE ParseFloat(e.v)

\* the body of the answered update gave a non-negative effort score
GaveEffort ==
    /\ putRes.req # <<>>
    /\ ~IsAbsent(putRes.req[1].effortLevel)
    /\ GivenEffort # NaN /\ GivenEffort >= 0

\* C29: after a successful update whose body gives a non-negative effort score
\* e, also e = 0, the stored effort is e; the stored effort is absent only
\* when the body carries no effort score.
C29_EffortStored ==
    putRes.status = 200 =>
        \A r \in PutRow :
            /\ GaveEffort => r.effort_level = Num(GivenEffort)
            /\ r.effort_level = Null =>
                  (IsAbsent(putRes.req[1].effortLevel) \/ GivenEffort = NaN)

-----------------------------------------------------------------------------
(* The claim about two creates at a time (SpecConcurrent) *)

\* both requests have been answered
BothAnswered == \A p \in Creators : creating[p].pc = "done"

\* C26: two valid create requests that run at the same time, under every
\* interleaving of their store calls, also when both read the same millisecond,
\* both succeed, with two distinct records that carry distinct final
\* identifiers.
C26_ConcurrentCreates ==
    BothAnswered =>
        /\ \A p \in Creators :
              /\ creating[p].status = 200
              /\ \E r \in enhancements : r.id = creating[p].id /\ Finalized(r)
        /\ creating["first"].id # creating["second"].id

-----------------------------------------------------------------------------
(* The claim about disabling the second factor (SpecDisable) *)

\* C30: whenever the disable endpoint answers success, the principal has no
\* verified TOTP factor left at the provider, so that a following status query
\* reports mfaEnabled false, also when the provider rejects the deletion of a
\* factor; with no verified TOTP factor the endpoint answers 400 and deletes
\* nothing.
C30_DisableRemovesFactors ==
    /\ disableRes.status = 200 =>
          /\ \A k \in 1..Len(enrolled) :
                ~(enrolled[k].factor_type = "totp" /\ enrolled[k].status = "verified")
          /\ (statusRes.after /\ statusRes.status = 200) => ~statusRes.mfaEnabled
    /\ (disableRes.status # 0 /\ disableRes.fault = "none") =>
          LET before == disableRes.before[1]
              none == \A k \in 1..Len(before) :
                         ~(before[k].factor_type = "totp" /\ before[k].status = "verified")
          IN  /\ none <=> disableRes.status = 400
              /\ none => enrolled = before

=============================================================================
